---- MODULE Spec2Model ----
(***************************************************************************)
(* A model of the gitrs storage engine (kumarpit/wyag.rs): the object      *)
(* codec, the KVLM codec, the tree codec, reference resolution, prefix     *)
(* resolution and the ignore matcher.                                      *)
(*                                                                         *)
(* Bytes are integers 0..255, byte strings are sequences of bytes.  Rust   *)
(* indices are 0-based and slices half-open; the model is 1-based, so the  *)
(* Rust slice raw[a..b] is SubSeq(raw, a+1, b) and an index i of the code  *)
(* is i+1 here.  All text in the model is ASCII, on which                  *)
(* String::from_utf8_lossy and str::from_utf8 are the identity.            *)
(***************************************************************************)
EXTENDS Integers, Sequences, FiniteSets, TLC

VARIABLES
    kv_pc,       \* KVLM codec: position of the round trip in progress
    kv_x,        \* KVLM codec: the input byte string (bytes direction)
    kv_m,        \* KVLM codec: the input map (map direction)
    kv_parsed,   \* KVLM codec: result of Kvlm::parse
    kv_ser,      \* KVLM codec: result of Kvlm::serialize
    tr_pc,       \* tree codec: position of the round trip in progress
    tr_in,       \* tree codec: the records of the Tree as constructed
    tr_records,  \* tree codec: self.records (serialize sorts them in place)
    tr_out,      \* tree codec: the bytes Tree::serialize returned
    tr_back,     \* tree codec: result of Tree::deserialize on those bytes
    refs,        \* reference store: the files under .gitrs outside objects/, path -> bytes
    rf_abs,      \* reference store: what each reference was created to hold (history)
    rf_pc,       \* Ref::resolve: "idle", "running" (a call is on the stack) or "done"
    rf_query,    \* Ref::resolve: the ref_path of the outermost call
    rf_path,     \* Ref::resolve: the ref_path of the innermost call
    rf_depth,    \* Ref::resolve: the number of calls made so far
    rf_result,   \* Ref::resolve: the value the outermost call returned
    objects,     \* object store: the files under objects/, digest -> file
    ob_last,     \* object store: the last operation, its arguments and its result
    ob_before,   \* object store: the files under objects/ before the last operation
    ob_written,  \* object store: (type, data) -> the digest its first write returned
    ig_files,    \* ignore matcher: directory -> the bytes of its tracked ignore file
    ig_relative, \* ignore matcher: IgnoreRules.relative once read, directory -> rules
    ig_last,     \* ignore matcher: the last check, its path and its verdict
    ix_file,     \* index: the file "index" of the git directory, absent or its bytes
    ix_mem,      \* index: the entries of the Index value held in memory
    ix_last,     \* index: the last operation and what it returned
    co_tree,     \* checkout: the records of the Tree value checkout is called on
    co_dest,     \* checkout: the destination directory, path -> directory or file
    co_last,      \* checkout: what the last checkout returned
    fo_last,      \* find with options: the last call, its options and its result
    st_work,     \* staging: the files of the worktree, path -> content and modification time
    st_proc,      \* staging: each process, its Index value, its call of add and where it stands
    rp_last      \* repository references: the last operation, its arguments and its result

kvvars == <<kv_pc, kv_x, kv_m, kv_parsed, kv_ser>>
trvars == <<tr_pc, tr_in, tr_records, tr_out, tr_back>>
rfvars == <<refs, rf_abs, rf_pc, rf_query, rf_path, rf_depth, rf_result>>

obvars == <<objects, ob_last, ob_before, ob_written>>

igvars == <<ig_files, ig_relative, ig_last>>

ixvars == <<ix_file, ix_mem, ix_last>>

covars == <<co_tree, co_dest, co_last>>

fovars == <<fo_last>>

stvars == <<st_work, st_proc>>

rpvars == <<rp_last>>

vars == <<kvvars, trvars, rfvars, obvars, igvars, ixvars, covars, fovars, stvars, rpvars>>

(***************************************************************************)
(* Bytes and byte strings                                                  *)
(***************************************************************************)
SP == 32     \* b' '
NL == 10     \* b'\n'
NUL == 0     \* the header terminator, 0 / \x00

\* slice.iter().position(|&b| b == byte) on raw[from..] mapped back to an index
\* of raw: the first index >= from holding byte, 0 when there is none (None).
Position(raw, byte, from) ==
    IF \E i \in from..Len(raw) : raw[i] = byte
    THEN CHOOSE i \in from..Len(raw) :
             raw[i] = byte /\ \A j \in from..(i - 1) : raw[j] # byte
    ELSE 0

\* raw[from..] of the code, from being 1-based here
From(raw, from) == SubSeq(raw, from, Len(raw))

RECURSIVE Concat(_)
\* the concatenation of a sequence of byte strings
Concat(ss) == IF ss = <<>> THEN <<>> ELSE Head(ss) \o Concat(From(ss, 2))

\* Option: None and Some(v)
None == [some |-> FALSE]
Some(v) == [some |-> TRUE, val |-> v]

\* a result of the code: Ok(val), Err(msg) or a panic (expect/unwrap/assert)
Ok(v) == [tag |-> "Ok", val |-> v]
Err(m) == [tag |-> "Err", val |-> m]
Panic(m) == [tag |-> "Panic", val |-> m]

(***************************************************************************)
(* KVLM codec (kvlm.rs)                                                    *)
(***************************************************************************)
\* IndexMap keys are Option<String>: Some(k) or None (the message body)
KvSome(k) == [some |-> TRUE, k |-> k]
KvNone == [some |-> FALSE, k |-> <<>>]

\* IndexMap::get: the values under key, <<>> standing for None (an entry's
\* value list is never empty)
KvGet(map, key) ==
    IF \E i \in 1..Len(map) : map[i].key = key
    THEN map[CHOOSE i \in 1..Len(map) : map[i].key = key].vals
    ELSE <<>>

\* result.entry(Some(key)).and_modify(|v| v.push(value)).or_insert_with(|| vec![value]):
\* an existing key keeps its position and gains the value, a new key goes last
KvEntryPush(map, key, value) ==
    IF \E i \in 1..Len(map) : map[i].key = key
    THEN [i \in 1..Len(map) |->
             IF map[i].key = key
             THEN [key |-> key, vals |-> Append(map[i].vals, value)]
             ELSE map[i]]
    ELSE Append(map, [key |-> key, vals |-> <<value>>])

\* IndexMap::insert: replaces the values of an existing key in place, else appends
KvInsert(map, key, vals) ==
    IF \E i \in 1..Len(map) : map[i].key = key
    THEN [i \in 1..Len(map) |->
             IF map[i].key = key THEN [key |-> key, vals |-> vals] ELSE map[i]]
    ELSE Append(map, [key |-> key, vals |-> vals])

RECURSIVE ReplaceNlSp(_)
\* str::replace("\n ", "\n"): non-overlapping matches, left to right
ReplaceNlSp(s) ==
    IF s = <<>> THEN <<>>
    ELSE IF Len(s) >= 2 /\ s[1] = NL /\ s[2] = SP
         THEN <<NL>> \o ReplaceNlSp(From(s, 3))
         ELSE <<s[1]>> \o ReplaceNlSp(From(s, 2))

RECURSIVE EncodeContinuation(_)
\* value.split('\n') joined by "\n ": every newline gains a following space
EncodeContinuation(s) ==
    IF s = <<>> THEN <<>>
    ELSE IF s[1] = NL
         THEN <<NL, SP>> \o EncodeContinuation(From(s, 2))
         ELSE <<s[1]>> \o EncodeContinuation(From(s, 2))

RECURSIVE KvValueEnd(_, _)
\* the inner loop of parse: from end, the index of the newline that ends the
\* value (continuation lines included); 0 when a newline is missing (the
\* expect("Expected newline") panic)
KvValueEnd(raw, end) ==
    LET newline_idx == Position(raw, NL, end + 1)
    IN  IF newline_idx = 0 THEN 0
        ELSE IF newline_idx + 1 <= Len(raw) /\ raw[newline_idx + 1] = SP
             THEN KvValueEnd(raw, newline_idx)
             ELSE newline_idx

\* the value slice of one header: &raw_data[space_idx + 1..=end], inclusive of end
KvValueSlice(raw, space_idx, end) == SubSeq(raw, space_idx + 1, end)

RECURSIVE KvParseFrom(_, _, _)
\* the while loop of Kvlm::parse from position pos with the map built so far
KvParseFrom(raw, pos, result) ==
    IF pos > Len(raw) THEN Ok(result)
    ELSE IF raw[pos] = NL
         THEN Ok(KvInsert(result, KvNone, <<From(raw, pos + 1)>>))
         ELSE LET space_idx == Position(raw, SP, pos)
              IN  IF space_idx = 0 THEN Panic("Expected space after key")
                  ELSE LET key == SubSeq(raw, pos, space_idx - 1)
                           end == KvValueEnd(raw, space_idx)
                       IN  IF end = 0 THEN Panic("Expected newline")
                           ELSE KvParseFrom(raw, end + 1,
                                    KvEntryPush(result, KvSome(key),
                                        ReplaceNlSp(KvValueSlice(raw, space_idx, end))))

\* Kvlm::parse
KvParse(raw) == KvParseFrom(raw, 1, <<>>)

\* the lines serialize emits for one key: "key value\n" per value
KvSerializeEntry(entry) ==
    IF entry.key.some
    THEN Concat([i \in 1..Len(entry.vals) |->
                    entry.key.k \o <<SP>> \o EncodeContinuation(entry.vals[i]) \o <<NL>>])
    ELSE <<>>

\* Kvlm::serialize
KvSerialize(map) ==
    Concat([i \in 1..Len(map) |-> KvSerializeEntry(map[i])])
    \o (IF KvGet(map, KvNone) # <<>> THEN <<NL>> \o KvGet(map, KvNone)[1] ELSE <<>>)

(***************************************************************************)
(* KVLM round trips: the inputs                                            *)
(***************************************************************************)
MaxHeaders == 3      \* header lines of an input byte string
MaxKeys == 2         \* keys of an input map
MaxVals == 2         \* values under one key of an input map

\* keys "a", "b"; values "", "x", "x y" and the two-line "x\ny"; messages
KvKeys == {<<97>>, <<98>>}
KvValues == {<<>>, <<120>>, <<120, SP, 121>>, <<120, NL, 121>>}
KvMessages == {<<>>, <<109>>, <<109, NL, NL, 110, NL>>}

\* one well-formed header: "key value\n", an embedded newline of the value
\* written as a continuation line "\n "
KvHeaderLine(key, value) == key \o <<SP>> \o EncodeContinuation(value) \o <<NL>>

\* the header sequences: up to MaxHeaders (key, value) pairs
KvHeaderSeqs ==
    UNION {[1..n -> KvKeys \X KvValues] : n \in 0..MaxHeaders}

\* no interleaved duplicate keys: the occurrences of a key are contiguous
KvContiguous(hs) ==
    \A i, j \in 1..Len(hs) :
        (i < j /\ hs[i][1] = hs[j][1]) => \A k \in i..j : hs[k][1] = hs[i][1]

\* the well-formed input byte strings: headers, a blank line, a message body
KvText(hs, msg) ==
    Concat([i \in 1..Len(hs) |-> KvHeaderLine(hs[i][1], hs[i][2])]) \o <<NL>> \o msg

KvInputs ==
    {KvText(hs, msg) : hs \in {h \in KvHeaderSeqs : KvContiguous(h)}, msg \in KvMessages}

\* the input maps: distinct keys in some order, one to MaxVals values each,
\* the message last under the None key
KvValueLists == UNION {[1..n -> KvValues] : n \in 1..MaxVals}

KvKeyOrders ==
    {ks \in UNION {[1..n -> KvKeys] : n \in 0..MaxKeys} :
        \A i, j \in 1..Len(ks) : i # j => ks[i] # ks[j]}

KvMapsOver(ks) ==
    {[i \in 1..(Len(ks) + 1) |->
         IF i <= Len(ks) THEN [key |-> KvSome(ks[i]), vals |-> vl[i]]
         ELSE [key |-> KvNone, vals |-> <<msg>>]] :
       vl \in [1..Len(ks) -> KvValueLists], msg \in KvMessages}

\* "HEAD", "refs", "heads", "tags", "remotes", "main", "dev" as bytes
SegHEAD == <<72, 69, 65, 68>>
SegRefs == <<114, 101, 102, 115>>
SegHeads == <<104, 101, 97, 100, 115>>
SegTags == <<116, 97, 103, 115>>
SegRemotes == <<114, 101, 109, 111, 116, 101, 115>>
SegMain == <<109, 97, 105, 110>>
SegDev == <<100, 101, 118>>

\* the reference store at rest: no reference file, no resolve in progress
RfIdle ==
    /\ refs = <<>> /\ rf_abs = <<>>
    /\ rf_pc = "idle" /\ rf_query = <<>> /\ rf_path = <<>>
    /\ rf_depth = 0 /\ rf_result = Ok(<<>>)

\* no operation yet
NoOp == [op |-> "none", type |-> "", data |-> <<>>, name |-> <<>>, repeat |-> FALSE,
         res |-> [tag |-> "Ok", val |-> <<>>, candidates |-> <<>>]]

\* checkout at rest: no tree, an empty destination, nothing done
CoIdle ==
    /\ co_tree = <<>> /\ co_dest = <<>> /\ co_last = [op |-> "none", res |-> Ok(<<>>)]

\* find with options at rest
FoIdle == fo_last = [op |-> "none", name |-> <<>>, options |-> None, res |-> Ok(<<>>)]

\* staging at rest: no worktree file, no process
StIdle == st_work = <<>> /\ st_proc = <<>>

\* the reference operations at rest
RpIdle ==
    rp_last = [op |-> "none", hash |-> <<>>, paths |-> <<>>, res |-> Ok(<<>>), had |-> None]

\* the index at rest: no index file, nothing written, nothing read
IxIdle ==
    /\ ix_file = [exists |-> FALSE, data |-> <<>>] /\ ix_mem = <<>>
    /\ ix_last = [op |-> "none", res |-> [some |-> FALSE]]

\* the ignore matcher at rest: no ignore files, nothing read, nothing checked
IgIdle ==
    /\ ig_files = <<>> /\ ig_relative = [read |-> FALSE, rules |-> <<>>]
    /\ ig_last = [op |-> "none", path |-> <<>>, res |-> [some |-> FALSE]]

\* the object store at rest: empty, nothing done
ObIdle ==
    /\ objects = <<>> /\ ob_before = <<>> /\ ob_written = <<>> /\ ob_last = NoOp

\* the tree codec at rest
TrIdle ==
    /\ tr_pc = "idle" /\ tr_in = <<>> /\ tr_records = <<>>
    /\ tr_out = <<>> /\ tr_back = Ok(<<>>)

\* the KVLM codec at rest (another component is being exercised)
KvIdle ==
    /\ kv_pc = "idle" /\ kv_x = <<>> /\ kv_m = <<>>
    /\ kv_parsed = Ok(<<>>) /\ kv_ser = <<>>

KvStart ==
    /\ kv_pc = "start"
    /\ \/ kv_x \in KvInputs /\ kv_m = <<>>
       \/ (\E ks \in KvKeyOrders : kv_m \in KvMapsOver(ks)) /\ kv_x = <<>>
    /\ kv_parsed = Ok(<<>>)
    /\ kv_ser = <<>>

\* Kvlm::new(raw_data) on the input byte string
KvParseInput ==
    /\ kv_pc = "start" /\ kv_m = <<>>
    /\ kv_parsed' = KvParse(kv_x)
    /\ kv_pc' = "parsed"
    /\ UNCHANGED <<kv_x, kv_m, kv_ser, trvars, rfvars, obvars, igvars, ixvars, covars, fovars, stvars, rpvars>>

\* serialize of the map parsed from the input byte string
KvSerializeParsed ==
    /\ kv_pc = "parsed" /\ kv_parsed.tag = "Ok"
    /\ kv_ser' = KvSerialize(kv_parsed.val)
    /\ kv_pc' = "bytes_done"
    /\ UNCHANGED <<kv_x, kv_m, kv_parsed, trvars, rfvars, obvars, igvars, ixvars, covars, fovars, stvars, rpvars>>

\* serialize of the input map
KvSerializeInput ==
    /\ kv_pc = "start" /\ kv_m # <<>>
    /\ kv_ser' = KvSerialize(kv_m)
    /\ kv_pc' = "serialized"
    /\ UNCHANGED <<kv_x, kv_m, kv_parsed, trvars, rfvars, obvars, igvars, ixvars, covars, fovars, stvars, rpvars>>

\* Kvlm::new on the serialization of the input map
KvParseSerialized ==
    /\ kv_pc = "serialized"
    /\ kv_parsed' = KvParse(kv_ser)
    /\ kv_pc' = "map_done"
    /\ UNCHANGED <<kv_x, kv_m, kv_ser, trvars, rfvars, obvars, igvars, ixvars, covars, fovars, stvars, rpvars>>

KvNext == KvParseInput \/ KvSerializeParsed \/ KvSerializeInput \/ KvParseSerialized

KvInit == KvStart /\ TrIdle /\ RfIdle /\ ObIdle /\ IgIdle /\ IxIdle /\ CoIdle /\ FoIdle /\ StIdle /\ RpIdle

SpecKvlm == KvInit /\ [][KvNext]_vars

\* C4: for every well-formed KVLM byte string without interleaved duplicate
\* keys, serialize(parse(x)) is byte-for-byte x (and parse does not fail).
C4_ByteRoundTrip ==
    /\ kv_pc = "parsed" => kv_parsed.tag = "Ok"
    /\ kv_pc = "bytes_done" => kv_ser = kv_x

\* C5: for every KVLM map, parse(serialize(m)) is m: the same keys in the same
\* order, the same value lists, the same message.
C5_MapRoundTrip ==
    kv_pc = "map_done" => kv_parsed.tag = "Ok" /\ kv_parsed.val = kv_m

(***************************************************************************)
(* Tree codec (object/tree.rs)                                             *)
(***************************************************************************)
LeafHashLen == 20    \* vec![0; 20]: the bytes Leaf::parse reads as the hash
SLASH == 47          \* '/'
ZERO == 48           \* '0'

\* String's Ord: byte-wise lexicographic, a proper prefix first
RECURSIVE LexLess(_, _)
LexLess(a, b) ==
    IF b = <<>> THEN FALSE
    ELSE IF a = <<>> THEN TRUE
    ELSE IF a[1] # b[1] THEN a[1] < b[1]
    ELSE LexLess(From(a, 2), From(b, 2))

\* str::starts_with
StartsWith(s, prefix) ==
    Len(s) >= Len(prefix) /\ SubSeq(s, 1, Len(prefix)) = prefix

\* String::from_utf8_lossy on bytes 0..127 and 0xFF: ASCII is kept, every 0xFF
\* (never valid in UTF-8) becomes U+FFFD, the three bytes EF BF BD
RECURSIVE Utf8Lossy(_)
Utf8Lossy(s) ==
    IF s = <<>> THEN <<>>
    ELSE (IF s[1] = 255 THEN <<239, 191, 189>> ELSE <<s[1]>>) \o Utf8Lossy(From(s, 2))

\* the sort key of Tree::serialize: the path, with '/' pushed unless the mode
\* starts with "10"
LeafSortKey(leaf) ==
    LET is_dir == ~StartsWith(leaf.file_mode, <<49, 48>>)
    IN  IF is_dir THEN leaf.path \o <<SLASH>> ELSE leaf.path

RECURSIVE InsertByKey(_, _)
\* the place of leaf in the sorted records: after every record whose key is
\* not greater (sort_by_key is stable)
InsertByKey(sorted, leaf) ==
    IF sorted = <<>> THEN <<leaf>>
    ELSE IF LexLess(LeafSortKey(leaf), LeafSortKey(sorted[1]))
         THEN <<leaf>> \o sorted
         ELSE <<sorted[1]>> \o InsertByKey(From(sorted, 2), leaf)

RECURSIVE SortLeaves(_)
\* self.records.sort_by_key(..): a stable sort by LeafSortKey
SortLeaves(records) ==
    IF records = <<>> THEN <<>>
    ELSE InsertByKey(SortLeaves(SubSeq(records, 1, Len(records) - 1)),
                     records[Len(records)])

\* format!("{}\x20{}\x00{}", leaf.file_mode, leaf.path, leaf.hash)
LeafBytes(leaf) == leaf.file_mode \o <<SP>> \o leaf.path \o <<NUL>> \o leaf.hash

\* Tree::serialize: sorts self.records in place, then emits every leaf; the
\* result holds the records as left behind and the output
TreeSerialize(records) ==
    LET sorted == SortLeaves(records)
    IN  [records |-> sorted,
         output |-> Concat([i \in 1..Len(sorted) |-> LeafBytes(sorted[i])])]

\* Leaf::parse at cursor position curr_pos: Ok([leaf, next]) or a panic
LeafParse(data, curr_pos) ==
    LET space_idx == Position(data, SP, curr_pos)
    IN  IF space_idx = 0 THEN Panic("Malformed leaf record: Missing space")
        ELSE
        LET raw_mode == Utf8Lossy(SubSeq(data, curr_pos, space_idx - 1))
            mode == IF space_idx - curr_pos = 5 THEN <<ZERO>> \o raw_mode ELSE raw_mode
            null_idx == Position(data, NUL, space_idx)
        IN  IF null_idx = 0 THEN Panic("Mallformed leaf record: Expected null byte")
            ELSE IF Len(data) - null_idx < LeafHashLen
                 THEN Panic("Couldn't read SHA-1 hash from leaf record")
                 ELSE Ok([leaf |-> [file_mode |-> mode,
                                    path |-> Utf8Lossy(SubSeq(data, space_idx + 1, null_idx - 1)),
                                    hash |-> Utf8Lossy(SubSeq(data, null_idx + 1,
                                                              null_idx + LeafHashLen))],
                          next |-> null_idx + LeafHashLen + 1])

RECURSIVE TreeDeserializeFrom(_, _, _)
\* the while loop of Tree::deserialize
TreeDeserializeFrom(data, pos, records) ==
    IF pos > Len(data) THEN Ok(records)
    ELSE LET r == LeafParse(data, pos)
         IN  IF r.tag # "Ok" THEN r
             ELSE TreeDeserializeFrom(data, r.val.next, Append(records, r.val.leaf))

\* Tree::deserialize
TreeDeserialize(data) == TreeDeserializeFrom(data, 1, <<>>)

\* Leaf::get_type_from_mode: the kind a mode denotes, "panic" for a weird mode
LeafTypeFromMode(file_mode) ==
    LET file_type == IF Len(file_mode) = 5 THEN SubSeq(file_mode, 1, 1)
                     ELSE SubSeq(file_mode, 1, 2)
    IN  CASE file_type \in {<<52>>, <<48, 52>>} -> "tree"
          [] file_type \in {<<49, 48>>, <<49, 50>>} -> "blob"
          [] file_type = <<49, 54>> -> "commit"
          [] OTHER -> "panic"

(***************************************************************************)
(* Tree round trips: the inputs                                            *)
(***************************************************************************)
MaxLeaves == 2       \* entries of an input tree

\* modes "100644" (file), "40000" (directory, 5 digits), "120000" (symlink)
TrModes == {<<49, 48, 48, 54, 52, 52>>, <<52, 48, 48, 48, 48>>, <<49, 50, 48, 48, 48, 48>>}
\* path segments "a", "a.b", "a0"
TrPaths == {<<97>>, <<97, 46, 98>>, <<97, 48>>}
\* two 40-hex digests: "a1" and "0f" twenty times over
TrHashes == {[i \in 1..(2 * LeafHashLen) |-> IF i % 2 = 1 THEN 97 ELSE 49],
             [i \in 1..(2 * LeafHashLen) |-> IF i % 2 = 1 THEN 48 ELSE 102]}

TrLeaves == [file_mode : TrModes, path : TrPaths, hash : TrHashes]

\* the input trees: up to MaxLeaves entries in any order, paths distinct
TrInputs ==
    {ls \in UNION {[1..n -> TrLeaves] : n \in 0..MaxLeaves} :
        \A i, j \in 1..Len(ls) : i # j => ls[i].path # ls[j].path}

TrStart ==
    /\ tr_pc = "start"
    /\ tr_in \in TrInputs
    /\ tr_records = tr_in
    /\ tr_out = <<>>
    /\ tr_back = Ok(<<>>)

\* Tree::serialize(&mut self)
TrSerialize ==
    /\ tr_pc = "start"
    /\ tr_records' = TreeSerialize(tr_records).records
    /\ tr_out' = TreeSerialize(tr_records).output
    /\ tr_pc' = "serialized"
    /\ UNCHANGED <<tr_in, tr_back, kvvars, rfvars, obvars, igvars, ixvars, covars, fovars, stvars, rpvars>>

\* Tree::deserialize on the serialized bytes
TrDeserialize ==
    /\ tr_pc = "serialized"
    /\ tr_back' = TreeDeserialize(tr_out)
    /\ tr_pc' = "done"
    /\ UNCHANGED <<tr_in, tr_records, tr_out, kvvars, rfvars, obvars, igvars, ixvars, covars, fovars, stvars, rpvars>>

TrNext == TrSerialize \/ TrDeserialize

TrInit == TrStart /\ KvIdle /\ RfIdle /\ ObIdle /\ IgIdle /\ IxIdle /\ CoIdle /\ FoIdle /\ StIdle /\ RpIdle

SpecTree == TrInit /\ [][TrNext]_vars

\* the set of entries of a record list, modes zero-padded to 6 characters
PadMode(mode) == IF Len(mode) = 5 THEN <<ZERO>> \o mode ELSE mode
EntrySet(records) ==
    {[file_mode |-> PadMode(records[i].file_mode), path |-> records[i].path,
      hash |-> records[i].hash] : i \in 1..Len(records)}

\* C6: deserialize(serialize(entries)) terminates and yields the input entries
\* as a set (mode up to zero-padding), none lost or added.
C6_TreeRoundTrip ==
    tr_pc = "done" =>
        /\ tr_back.tag = "Ok"
        /\ Len(tr_back.val) = Len(tr_in)
        /\ EntrySet(tr_back.val) = EntrySet(tr_in)

\* the order the claim states: '/' appended exactly for directory (Tree) entries
ClaimedSortKey(leaf) ==
    IF LeafTypeFromMode(leaf.file_mode) = "tree" THEN leaf.path \o <<SLASH>> ELSE leaf.path

\* the permutations of a record list
Reorderings(records) ==
    {[i \in 1..Len(records) |-> records[f[i]]] :
        f \in {g \in [1..Len(records) -> 1..Len(records)] :
                  \A i, j \in 1..Len(records) : i # j => g[i] # g[j]}}

\* C7: serialize emits the entries sorted by path with '/' appended exactly
\* when the entry is a directory, and the bytes are the same for every
\* permutation of the entries.
C7_TreeCanonicalOrder ==
    tr_pc = "serialized" =>
        /\ \A i \in 1..(Len(tr_records) - 1) :
               LexLess(ClaimedSortKey(tr_records[i]), ClaimedSortKey(tr_records[i + 1]))
        /\ tr_out = Concat([i \in 1..Len(tr_records) |-> LeafBytes(tr_records[i])])
        /\ \A q \in Reorderings(tr_in) : TreeSerialize(q).output = tr_out

(***************************************************************************)
(* Repository files (repository.rs) and references (refs.rs)               *)
(*                                                                         *)
(* A path under .gitrs is the sequence of its segments; pushing an empty   *)
(* segment onto a PathBuf leaves the file it names unchanged.              *)
(***************************************************************************)
\* the 40-hex digests "a1a1..." and "0f0f..."
DigestA == [i \in 1..(2 * LeafHashLen) |-> IF i % 2 = 1 THEN 97 ELSE 49]
DigestB == [i \in 1..(2 * LeafHashLen) |-> IF i % 2 = 1 THEN 48 ELSE 102]

RECURSIVE SplitOn(_, _)
\* str::split(sep): the pieces between separators, at least one
SplitOn(s, sep) ==
    LET i == Position(s, sep, 1)
    IN  IF i = 0 THEN <<s>>
        ELSE <<SubSeq(s, 1, i - 1)>> \o SplitOn(From(s, i + 1), sep)

RECURSIVE JoinWith(_, _)
\* [..].join(sep)
JoinWith(parts, sep) ==
    IF Len(parts) = 0 THEN <<>>
    ELSE IF Len(parts) = 1 THEN parts[1]
    ELSE parts[1] \o <<sep>> \o JoinWith(From(parts, 2), sep)

\* Repository::compute_repo_path: gitdir with every segment pushed
ComputeRepoPath(paths) == SelectSeq(paths, LAMBDA seg : seg # <<>>)

\* the directories Repository::init creates (REQUIRED_DIRS) and the gitdir
RequiredDirs ==
    {<<>>, <<<<98, 114, 97, 110, 99, 104, 101, 115>>>>,
     <<<<111, 98, 106, 101, 99, 116, 115>>>>,
     <<SegRefs>>, <<SegRefs, SegTags>>, <<SegRefs, SegHeads>>}

\* Path::exists / is_dir on the files of the model
IsFile(files, path) == path \in DOMAIN files
IsDir(files, path) ==
    \/ path \in RequiredDirs
    \/ \E f \in DOMAIN files : Len(f) > Len(path) /\ SubSeq(f, 1, Len(path)) = path

\* Repository::get_path_to_file (compute_or_create_repo_file with
\* should_create = false): Ok(path) when a file or directory is there,
\* Err when not, a panic when the parent exists and is no directory
GetPathToFile(files, paths) ==
    IF paths = <<>> THEN Panic("attempt to subtract with overflow")
    ELSE LET dir == ComputeRepoPath(SubSeq(paths, 1, Len(paths) - 1))
             file_path == ComputeRepoPath(paths)
         IN  IF IsFile(files, dir) THEN Panic("Expected a directory at")
             ELSE IF ~IsDir(files, dir) THEN Err("Not a file")
             ELSE IF IsFile(files, file_path) \/ IsDir(files, file_path)
                  THEN Ok(file_path)
                  ELSE Err("Not a file")

\* "ref:"
RefMarker == <<114, 101, 102, 58>>
\* data[5..]: the target starts after "ref: "
RefTargetOffset == 5

\* the bytes with one trailing newline popped
TrimNewline(bytes) ==
    IF Len(bytes) > 0 /\ bytes[Len(bytes)] = NL
    THEN SubSeq(bytes, 1, Len(bytes) - 1) ELSE bytes

\* an off-by-one slip: the target taken from the space on, &data[4..]
RefTargetFromSpace(data) == From(data, RefTargetOffset)

\* where the target of an indirection starts: &data[5..]
RefTarget(data) == From(data, RefTargetOffset + 1)

\* a resolve with a guard the code does not have: a reference that names
\* itself is reported instead of followed
RefResolveCallSelfGuarded(files, ref_path) ==
    LET found == GetPathToFile(files, ref_path)
    IN  IF found.tag # "Ok" THEN [call |-> FALSE, path |-> <<>>, res |-> found]
        ELSE IF ~IsFile(files, found.val)
        THEN [call |-> FALSE, path |-> <<>>, res |-> Err("Failed to read file")]
        ELSE
        LET data == TrimNewline(files[found.val])
        IN  IF \E i \in 1..Len(data) : data[i] > 127
            THEN [call |-> FALSE, path |-> <<>>, res |-> Err("Ref file is not valid UTF-8")]
            ELSE IF StartsWith(data, RefMarker)
            THEN IF Len(data) < RefTargetOffset
                 THEN [call |-> FALSE, path |-> <<>>,
                       res |-> Panic("byte index 5 is out of bounds")]
                 ELSE IF SplitOn(RefTarget(data), SLASH) = ref_path
                 THEN [call |-> FALSE, path |-> <<>>, res |-> Err("CycleDetected")]
                 ELSE [call |-> TRUE, path |-> SplitOn(RefTarget(data), SLASH),
                       res |-> Ok(<<>>)]
            ELSE [call |-> FALSE, path |-> <<>>, res |-> Ok(data)]

\* One call of Ref::resolve up to its return or its recursive call (a tail
\* call: what the inner call returns is what the outer returns):
\* [call |-> TRUE, path |-> parts] or [call |-> FALSE, res |-> result]
RefResolveCall(files, ref_path) ==
    LET found == GetPathToFile(files, ref_path)
    IN  IF found.tag # "Ok" THEN [call |-> FALSE, path |-> <<>>, res |-> found]
        ELSE IF ~IsFile(files, found.val)
        THEN [call |-> FALSE, path |-> <<>>, res |-> Err("Failed to read file")]
        ELSE
        LET data == TrimNewline(files[found.val])
        IN  IF \E i \in 1..Len(data) : data[i] > 127
            THEN [call |-> FALSE, path |-> <<>>, res |-> Err("Ref file is not valid UTF-8")]
            ELSE IF StartsWith(data, RefMarker)
            THEN IF Len(data) < RefTargetOffset
                 THEN [call |-> FALSE, path |-> <<>>,
                       res |-> Panic("byte index 5 is out of bounds")]
                 ELSE [call |-> TRUE, path |-> SplitOn(RefTarget(data), SLASH),
                       res |-> Ok(<<>>)]
            ELSE [call |-> FALSE, path |-> <<>>, res |-> Ok(data)]

(***************************************************************************)
(* Reference resolution: the stores and the queries                        *)
(***************************************************************************)
MaxRefDepth == 4     \* calls of Ref::resolve followed before the model stops

RefHEAD == <<SegHEAD>>
RefMainBranch == <<SegRefs, SegHeads, SegMain>>
RefDevBranch == <<SegRefs, SegHeads, SegDev>>
RefNames == {RefHEAD, RefMainBranch, RefDevBranch}

\* what a reference file is created to hold: a digest (create_at writes it
\* with a newline; a hand-written file may lack it) or "ref: <path>\n"
RefHoldings ==
    {[kind |-> "digest", d |-> DigestA, nl |-> TRUE, target |-> <<>>],
     [kind |-> "digest", d |-> DigestB, nl |-> FALSE, target |-> <<>>]}
    \cup {[kind |-> "sym", d |-> <<>>, nl |-> TRUE, target |-> t] : t \in RefNames}

\* the bytes of a reference file
RefFileBytes(h) ==
    IF h.kind = "digest" THEN h.d \o (IF h.nl THEN <<NL>> ELSE <<>>)
    ELSE RefMarker \o <<SP>> \o JoinWith(h.target, SLASH) \o <<NL>>

\* the reference layouts: any of the names present, holding any of the above
RefLayouts == UNION {[S -> RefHoldings] : S \in SUBSET RefNames}

\* the paths resolve is asked for: the names, and a name that is never a file
RefQueries == RefNames \cup {<<SegRefs, SegTags, SegDev>>}

RfStart ==
    /\ rf_abs \in RefLayouts
    /\ refs = [n \in DOMAIN rf_abs |-> RefFileBytes(rf_abs[n])]
    /\ rf_pc = "idle" /\ rf_query = <<>> /\ rf_path = <<>>
    /\ rf_depth = 0 /\ rf_result = Ok(<<>>)

\* a caller invokes Ref::resolve(repository, q)
RfResolveStart(q) ==
    /\ rf_pc = "idle"
    /\ rf_pc' = "running"
    /\ rf_query' = q /\ rf_path' = q
    /\ UNCHANGED <<refs, rf_abs, rf_depth, rf_result, kvvars, trvars, obvars, igvars, ixvars, covars, fovars, stvars, rpvars>>

\* the innermost call of Ref::resolve runs: it returns, and with it every
\* call above it, or it calls resolve on the target
RfResolveStep ==
    /\ rf_pc = "running" /\ rf_depth < MaxRefDepth
    /\ LET c == RefResolveCall(refs, rf_path)
       IN  /\ rf_depth' = rf_depth + 1
           /\ IF c.call
              THEN rf_path' = c.path /\ UNCHANGED <<rf_pc, rf_result>>
              ELSE rf_pc' = "done" /\ rf_result' = c.res /\ UNCHANGED rf_path
    /\ UNCHANGED <<refs, rf_abs, rf_query, kvvars, trvars, obvars, igvars, ixvars, covars, fovars, stvars, rpvars>>

RfNext == (\E q \in RefQueries : RfResolveStart(q)) \/ RfResolveStep

RfInit == RfStart /\ KvIdle /\ TrIdle /\ ObIdle /\ IgIdle /\ IxIdle /\ CoIdle /\ FoIdle /\ StIdle /\ RpIdle

SpecRefs == RfInit /\ [][RfNext]_vars

RECURSIVE ChainEnd(_, _, _)
\* where the chain of indirections from name ends, following at most fuel
\* links: the digest held by its last file, or <<>> when the chain dangles or
\* does not end within fuel links (a cycle, when fuel is the number of files)
ChainEnd(abs, name, fuel) ==
    IF name \notin DOMAIN abs THEN <<>>
    ELSE IF abs[name].kind = "digest" THEN abs[name].d
    ELSE IF fuel = 0 THEN <<>>
    ELSE ChainEnd(abs, abs[name].target, fuel - 1)

\* C9: for every finite acyclic chain of 'ref: <path>' files ending in a file
\* that holds a digest, resolve of the first name returns exactly that digest
\* (one trailing newline stripped); so HEAD -> refs/heads/main -> D gives D.
C9_ResolveFollowsIndirection ==
    LET d == ChainEnd(rf_abs, rf_query, Cardinality(DOMAIN rf_abs))
    IN  /\ (rf_pc = "done" /\ d # <<>>) => (rf_result.tag = "Ok" /\ rf_result.val = d)
        /\ (rf_pc = "running" /\ d # <<>>) => rf_depth < Cardinality(DOMAIN rf_abs)

\* HEAD holds 'ref: refs/heads/main\n', refs/heads/main holds 'D\n', and
\* resolve(["HEAD"]) has returned D after following the indirection
C9_Witness ==
    /\ RefHEAD \in DOMAIN refs /\ RefMainBranch \in DOMAIN refs
    /\ refs[RefHEAD] = RefMarker \o <<SP>> \o SegRefs \o <<SLASH>> \o SegHeads
                           \o <<SLASH>> \o SegMain \o <<NL>>
    /\ refs[RefMainBranch] = DigestA \o <<NL>>
    /\ rf_query = RefHEAD /\ rf_pc = "done" /\ rf_depth = 2
    /\ rf_result = Ok(DigestA)

(***************************************************************************)
(* Object codec and object store (object.rs, object/blob.rs,               *)
(* object/commit.rs, object/tag.rs)                                        *)
(***************************************************************************)
ObjectTypes == {"blob", "commit", "tag", "tree"}

\* Display for ObjectType: "blob", "commit", "tag", "tree" as bytes
TypeName(t) ==
    CASE t = "blob" -> <<98, 108, 111, 98>>
      [] t = "commit" -> <<99, 111, 109, 109, 105, 116>>
      [] t = "tag" -> <<116, 97, 103>>
      [] t = "tree" -> <<116, 114, 101, 101>>

\* ObjectType::try_from(&str)
TypeFromName(name) ==
    IF \E t \in ObjectTypes : TypeName(t) = name
    THEN Ok(CHOOSE t \in ObjectTypes : TypeName(t) = name)
    ELSE Err("Unrecognized Object type")

\* hex::encode: two lower-case hex digits per byte
HexDigit(n) == IF n < 10 THEN ZERO + n ELSE 87 + n
RECURSIVE HexEncode(_)
HexEncode(bytes) ==
    IF bytes = <<>> THEN <<>>
    ELSE <<HexDigit(bytes[1] \div 16), HexDigit(bytes[1] % 16)>> \o HexEncode(From(bytes, 2))

RECURSIVE DigestByte(_, _, _)
\* byte j of the stand-in digest: the bytes of data at positions j, j + 20,
\* j + 40, ... folded together
DigestByte(data, j, acc) ==
    IF j > Len(data) THEN acc
    ELSE DigestByte(data, j + LeafHashLen, (acc * 31 + data[j] + (j \div LeafHashLen)) % 256)

\* GitrsObject::hash.  Sha1 itself is not computed: the digest here is a
\* stand-in with Sha1's contract, a function of the bytes alone giving 20
\* bytes as 40 lower-case hex characters, and distinct on the distinct
\* contents of the model (HashInjective below is checked with the claims)
Hash(data) == HexEncode([j \in 1..LeafHashLen |-> DigestByte(data, j, 0)])

RECURSIVE FormatUsize(_)
\* format!("{}", n) of a usize: decimal, no leading zeros
FormatUsize(n) ==
    IF n < 10 THEN <<ZERO + n>> ELSE FormatUsize(n \div 10) \o <<ZERO + (n % 10)>>

IsDigit(b) == b >= ZERO /\ b <= ZERO + 9

RECURSIVE DecimalValue(_, _)
DecimalValue(digits, acc) ==
    IF digits = <<>> THEN acc
    ELSE DecimalValue(From(digits, 2), acc * 10 + (digits[1] - ZERO))

\* str::parse::<usize>(): an optional '+', then one or more decimal digits
\* (leading zeros allowed); Err otherwise.  Overflow is out of the model's reach.
ParseUsize(text) ==
    LET digits == IF Len(text) > 0 /\ text[1] = 43 THEN From(text, 2) ELSE text
    IN  IF digits = <<>> \/ \E i \in 1..Len(digits) : ~IsDigit(digits[i])
        THEN Err("invalid digit found in string")
        ELSE Ok(DecimalValue(digits, 0))

\* GitrsObject::deserialize: the object of the given type built from data; the
\* structured kinds parse data and panic where their parser does
ObjDeserialize(data, object_type) ==
    CASE object_type = "blob" -> Ok([type |-> "blob", body |-> data])
      [] object_type \in {"commit", "tag"} ->
            LET kvlm == KvParse(data)
            IN  IF kvlm.tag = "Ok" THEN Ok([type |-> object_type, body |-> kvlm.val])
                ELSE kvlm
      [] object_type = "tree" ->
            LET tree == TreeDeserialize(data)
            IN  IF tree.tag = "Ok" THEN Ok([type |-> "tree", body |-> tree.val])
                ELSE tree

\* GitrsObject::serialize
ObjSerialize(obj) ==
    CASE obj.type = "blob" -> obj.body
      [] obj.type \in {"commit", "tag"} -> KvSerialize(obj.body)
      [] obj.type = "tree" -> TreeSerialize(obj.body).output

\* a payload whose header declares the length of the whole buffer, header
\* included
ObjPayloadCountingHeader(obj) ==
    LET data == ObjSerialize(obj)
        header == TypeName(obj.type) \o <<SP>> \o FormatUsize(Len(data)) \o <<NUL>>
    IN  TypeName(obj.type) \o <<SP>> \o FormatUsize(Len(header) + Len(data))
            \o <<NUL>> \o data

\* the bytes write hashes and stores: "<type> <len>\0" then the serialization
ObjPayload(obj) ==
    LET data == ObjSerialize(obj)
    IN  TypeName(obj.type) \o <<SP>> \o FormatUsize(Len(data)) \o <<NUL>> \o data

\* a file under objects/: a zlib stream of data, or bytes that are no zlib
\* stream (zlib |-> FALSE), which ZlibDecoder fails to read
ZlibFile(data) == [zlib |-> TRUE, data |-> data]

\* a slip: upsert_file opening the file to append instead of truncating it
UpsertFileAppending(store, sha, data) ==
    IF sha \in DOMAIN store /\ store[sha].zlib
    THEN [store EXCEPT ![sha] = ZlibFile(store[sha].data \o data)]
    ELSE [d \in DOMAIN store \cup {sha} |-> IF d = sha THEN ZlibFile(data) ELSE store[d]]

\* an upsert that makes the directory objects/<2 hex> anew: the other files
\* of that directory are gone
UpsertFileFreshDir(store, sha, data) ==
    [d \in {e \in DOMAIN store : SubSeq(e, 1, 2) # SubSeq(sha, 1, 2)} \cup {sha} |->
        IF d = sha THEN ZlibFile(data) ELSE store[d]]

\* Repository::upsert_file at objects/<sha[..2]>/<sha[2..]>: File::create
\* makes or truncates the file, the encoder writes the compressed data
UpsertFile(store, sha, data) ==
    [d \in DOMAIN store \cup {sha} |-> IF d = sha THEN ZlibFile(data) ELSE store[d]]

\* a write that names the file by the digest of the serialized object alone,
\* without the header of type and length
ObjWriteHashingBody(store, obj) ==
    LET sha == Hash(ObjSerialize(obj))
    IN  [sha |-> sha, store |-> UpsertFile(store, sha, ObjPayload(obj))]

\* GitrsObject::write: the digest returned and the store left behind
ObjWrite(store, obj) ==
    LET payload == ObjPayload(obj)
        sha == Hash(payload)
    IN  [sha |-> sha, store |-> UpsertFile(store, sha, payload)]

\* GitrsObject::deserialize_and_write: Ok(digest) and the new store, or the
\* panic of deserialize with the store untouched
ObjDeserializeAndWrite(store, data, object_type) ==
    LET obj == ObjDeserialize(data, object_type)
    IN  IF obj.tag # "Ok" THEN [res |-> obj, store |-> store]
        ELSE [res |-> Ok(ObjWrite(store, obj.val).sha),
              store |-> ObjWrite(store, obj.val).store]

\* the bytes after the header: &decompressed[size_end + 1..]
ObjContent(decompressed, size_end) == From(decompressed, size_end + 1)

\* GitrsObject::read
\* str::is_char_boundary(n) for the bytes of a string: the end, or a byte that
\* is not a UTF-8 continuation byte
IsCharBoundary(s, n) == n = Len(s) \/ (n < Len(s) /\ (s[n + 1] < 128 \/ s[n + 1] > 191))

ObjRead(store, sha) ==
    IF Len(sha) < 2 THEN Panic("byte index 2 is out of bounds")
    ELSE IF ~IsCharBoundary(sha, 2) THEN Panic("byte index 2 is not a char boundary")
    ELSE IF sha \notin DOMAIN store THEN Err("Object file does not exist")
    ELSE IF ~store[sha].zlib THEN Err("corrupt deflate stream")
    ELSE
    LET decompressed == store[sha].data
        type_end == Position(decompressed, SP, 1)
    IN  IF type_end = 0 THEN Err("Malformed object: missing space in header")
        ELSE
        LET size_end == Position(decompressed, NUL, type_end)
        IN  IF size_end = 0 THEN Err("Malformed object: missing null byte in header")
            ELSE
            LET type_bytes == SubSeq(decompressed, 1, type_end - 1)
                object_type == TypeFromName(type_bytes)
                object_size == ParseUsize(SubSeq(decompressed, type_end + 1, size_end - 1))
                content == ObjContent(decompressed, size_end)
            IN  IF \E i \in 1..Len(type_bytes) : type_bytes[i] > 127
                THEN Err("invalid utf-8 sequence")
                ELSE IF object_type.tag # "Ok" THEN object_type
                ELSE IF \E i \in (type_end + 1)..(size_end - 1) : decompressed[i] > 127
                THEN Err("invalid utf-8 sequence")
                ELSE IF object_size.tag # "Ok" THEN object_size
                ELSE IF object_size.val # Len(content)
                THEN Err("Malformed object: size mismatch")
                ELSE ObjDeserialize(content, object_type.val)

\* Ref::resolve as its caller sees it: the calls followed to the end.  A
\* chain that passes through more files than exist repeats one, and then the
\* recursion never returns: the process overflows its stack ("Overflow").
RECURSIVE RefResolveWithin(_, _, _)
RefResolveWithin(files, ref_path, fuel) ==
    LET c == RefResolveCall(files, ref_path)
    IN  IF ~c.call THEN c.res
        ELSE IF fuel = 0 THEN [tag |-> "Overflow", val |-> <<>>]
        ELSE RefResolveWithin(files, c.path, fuel - 1)

RefResolve(files, ref_path) ==
    RefResolveWithin(files, ref_path, Cardinality(DOMAIN files))

\* char::is_ascii_hexdigit, u8::to_ascii_lowercase (str::to_lowercase on ASCII)
IsHexDigit(b) == IsDigit(b) \/ (b >= 97 /\ b <= 102) \/ (b >= 65 /\ b <= 70)
LowerByte(b) == IF b >= 65 /\ b <= 90 THEN b + 32 ELSE b
ToLowercase(text) == [i \in 1..Len(text) |-> LowerByte(text[i])]

\* str::trim().is_empty(): nothing but white space
IsBlank(text) == \A i \in 1..Len(text) : text[i] \in {SP, NL, 9, 13}

\* a slip: the rest of the name compared as typed, not lower-cased
HexCandidatesAsTyped(store, name) ==
    {d \in DOMAIN store :
        SubSeq(d, 1, 2) = ToLowercase(SubSeq(name, 1, 2)) /\ StartsWith(From(d, 3), From(name, 3))}

\* the names in the object directory that the name selects: to_string of
\* objects/<dir>/<file> for every file that starts with the rest of the name
HexCandidates(store, name) ==
    LET dir == ToLowercase(SubSeq(name, 1, 2))
        prefix == ToLowercase(From(name, 3))
    IN  {d \in DOMAIN store : SubSeq(d, 1, 2) = dir /\ StartsWith(From(d, 3), prefix)}

\* Repository::get_path_to_dir on objects/<dir>: the directory exists once
\* a write has put a file in it
ObjDirExists(store, name) ==
    \E d \in DOMAIN store : SubSeq(d, 1, 2) = ToLowercase(SubSeq(name, 1, 2))

\* the orders read_dir may list a set of names in
Orderings(S) ==
    {q \in [1..Cardinality(S) -> S] : \A i, j \in 1..Cardinality(S) : i # j => q[i] # q[j]}

\* the three namespaces a symbolic name is looked up in, in this order
RefNamespaces == <<<<SegRefs, SegTags>>, <<SegRefs, SegHeads>>, <<SegRefs, SegRemotes>>>>

\* a lookup that stops at the first namespace the name resolves in
RECURSIVE SymbolicFirstMatch(_, _, _)
SymbolicFirstMatch(files, name, i) ==
    IF i > Len(RefNamespaces) THEN Ok(<<>>)
    ELSE LET r == RefResolve(files, Append(RefNamespaces[i], name))
         IN  IF r.tag \in {"Panic", "Overflow"} THEN r
             ELSE IF r.tag = "Ok" THEN Ok(<<r.val>>)
             ELSE SymbolicFirstMatch(files, name, i + 1)

RECURSIVE SymbolicCandidates(_, _, _)
\* the for loop of resolve over the namespaces from the i-th on: Ok(results),
\* or what a lookup that never returns or panics does to the whole call
SymbolicCandidates(files, name, i) ==
    IF i > Len(RefNamespaces) THEN Ok(<<>>)
    ELSE LET r == RefResolve(files, Append(RefNamespaces[i], name))
             rest == SymbolicCandidates(files, name, i + 1)
         IN  IF r.tag \in {"Panic", "Overflow"} THEN r
             ELSE IF rest.tag # "Ok" THEN rest
             ELSE IF r.tag = "Ok" THEN Ok(<<r.val>> \o rest.val)
             ELSE rest

\* GitrsObject::resolve; listing is the order read_dir lists the candidates in
ObjResolve(store, files, name, listing) ==
    IF IsBlank(name) THEN Err("Cannot resolve empty object name")
    ELSE IF name = SegHEAD
    THEN LET r == RefResolve(files, <<SegHEAD>>)
         IN  IF r.tag = "Ok" THEN Ok(<<r.val>>) ELSE r
    ELSE IF \A i \in 1..Len(name) : IsHexDigit(name[i])
    THEN IF Len(name) < 2 THEN Panic("byte index 2 is out of bounds")
         ELSE IF ~ObjDirExists(store, name) THEN Err("Object directory missing")
         ELSE Ok(listing)
    ELSE SymbolicCandidates(files, name, 1)

\* a slip: the first candidate returned without the cardinality check
FindFirstCandidate(shas) ==
    IF Len(shas) = 0 THEN [tag |-> "Err", val |-> "Couldn't find object with name", candidates |-> <<>>]
    ELSE [tag |-> "Ok", val |-> shas[1], candidates |-> <<>>]

\* the match of find on the candidates (no options): none is an error, one is
\* the answer, more are an error that lists them all
FindAmong(shas) ==
    CASE Len(shas) = 0 ->
            [tag |-> "Err", val |-> "Couldn't find object with name", candidates |-> <<>>]
      [] Len(shas) = 1 -> [tag |-> "Ok", val |-> shas[1], candidates |-> <<>>]
      [] OTHER -> [tag |-> "Err", val |-> "Ambiguous reference", candidates |-> shas]

\* GitrsObject::find(repository, name, None)
ObjFind(store, files, name, listing) ==
    LET shas == ObjResolve(store, files, name, listing)
    IN  IF shas.tag # "Ok" THEN [tag |-> shas.tag, val |-> shas.val, candidates |-> <<>>]
        ELSE FindAmong(shas.val)

(***************************************************************************)
(* Object store: the operations and their inputs                           *)
(***************************************************************************)
MaxWrites == 2       \* distinct (type, data) pairs written in one run

\* a tree of one leaf "100644 a" whose 20 digest bytes are all b
OneLeafTree(b) ==
    <<49, 48, 48, 54, 52, 52, SP, 97, NUL>> \o [i \in 1..LeafHashLen |-> b]

\* the payloads handed to write: "", "x", the commit text "a x\n\nm", and a
\* tree whose digest bytes are 0xFF
ObjPayloads ==
    {<<>>, <<120>>, <<97, SP, 120, NL, NL, 109>>, OneLeafTree(255)}

\* the result of an operation, in the shape of find's
OpResult(r) == [tag |-> r.tag, val |-> r.val, candidates |-> <<>>]

\* the names find is asked for: prefixes of the stored digests (cut where the
\* digests of the model part), one of them in upper case, a name in a
\* directory that holds other objects, a name without a directory, a single
\* digit, the empty name, HEAD and a branch name
UpperByte(b) == IF b >= 97 /\ b <= 122 THEN b - 32 ELSE b
FindNames(store) ==
    UNION {{SubSeq(d, 1, 2), SubSeq(d, 1, 11), SubSeq(d, 1, 12), d,
            [i \in 1..4 |-> UpperByte(d[i])],
            SubSeq(d, 1, 2) \o <<102, 102>>} : d \in DOMAIN store}
    \cup {<<97, 98>>, <<54>>, <<>>, SegHEAD, SegMain}

\* a stored digest, an absent one, and two strings that are no digest: "6" and
\* "a" followed by a two-byte character
ReadNames(store) == DOMAIN store \cup {DigestA, <<54>>, <<97, 195, 169>>}

\* the reference layouts the store is exercised with: none, and HEAD -> main -> D
ObjRefLayouts ==
    {<<>>,
     [n \in {RefHEAD, RefMainBranch} |->
         IF n = RefHEAD
         THEN [kind |-> "sym", d |-> <<>>, nl |-> TRUE, target |-> RefMainBranch]
         ELSE [kind |-> "digest", d |-> DigestA, nl |-> TRUE, target |-> <<>>]]}

ObStart ==
    /\ objects = <<>> /\ ob_before = <<>> /\ ob_written = <<>> /\ ob_last = NoOp
    /\ rf_abs \in ObjRefLayouts
    /\ refs = [n \in DOMAIN rf_abs |-> RefFileBytes(rf_abs[n])]
    /\ rf_pc = "idle" /\ rf_query = <<>> /\ rf_path = <<>>
    /\ rf_depth = 0 /\ rf_result = Ok(<<>>)

\* GitrsObject::deserialize_and_write(repository, data, object_type)
ObWrite(object_type, data) ==
    /\ \/ <<object_type, data>> \in DOMAIN ob_written
       \/ Cardinality(DOMAIN ob_written) < MaxWrites
    /\ LET w == ObjDeserializeAndWrite(objects, data, object_type)
       IN  /\ objects' = w.store
           /\ ob_last' = [op |-> "write", type |-> object_type, data |-> data,
                          name |-> <<>>, res |-> OpResult(w.res),
                          repeat |-> <<object_type, data>> \in DOMAIN ob_written]
           /\ ob_written' =
                 IF w.res.tag = "Ok" /\ <<object_type, data>> \notin DOMAIN ob_written
                 THEN [k \in DOMAIN ob_written \cup {<<object_type, data>>} |->
                          IF k = <<object_type, data>> THEN w.res.val ELSE ob_written[k]]
                 ELSE ob_written
    /\ ob_before' = objects
    /\ UNCHANGED <<kvvars, trvars, rfvars, igvars, ixvars, covars, fovars, stvars, rpvars>>

\* GitrsObject::read(repository, sha)
ObRead(sha) ==
    /\ ob_last' = [op |-> "read", type |-> "", data |-> <<>>, name |-> sha,
                   repeat |-> FALSE, res |-> OpResult(ObjRead(objects, sha))]
    /\ ob_before' = objects
    /\ UNCHANGED <<objects, ob_written, kvvars, trvars, rfvars, igvars, ixvars, covars, fovars, stvars, rpvars>>

\* GitrsObject::find(repository, name, None); read_dir lists the candidates
\* in some order
ObFind(name) ==
    /\ \E listing \in Orderings(IF Len(name) >= 2 THEN HexCandidates(objects, name) ELSE {}) :
          ob_last' = [op |-> "find", type |-> "", data |-> <<>>, name |-> name,
                      repeat |-> FALSE, res |-> ObjFind(objects, refs, name, listing)]
    /\ ob_before' = objects
    /\ UNCHANGED <<objects, ob_written, kvvars, trvars, rfvars, igvars, ixvars, covars, fovars, stvars, rpvars>>

ObNext ==
    \/ \E t \in ObjectTypes, p \in ObjPayloads : ObWrite(t, p)
    \/ \E sha \in ReadNames(objects) : ObRead(sha)
    \/ \E name \in FindNames(objects) : ObFind(name)

ObInit == ObStart /\ KvIdle /\ TrIdle /\ IgIdle /\ IxIdle /\ CoIdle /\ FoIdle /\ StIdle /\ RpIdle

SpecObj == ObInit /\ [][ObNext]_vars

(***************************************************************************)
(* GitrsObject::read on a file that anything may have put under objects/   *)
(***************************************************************************)
MaxContent == 2      \* bytes after the header of the file

\* the pieces of the file: a type name, the space or none, a length, the NUL
\* or none, the content
FileTypeNames == {TypeName(t) : t \in ObjectTypes} \cup {<<98, 108, 117, 98>>, <<>>}
FileSpaces == {<<SP>>, <<>>}
FileLengths == {<<48>>, <<49>>, <<50>>, <<43, 49>>, <<48, 49>>, <<120>>, <<>>}
FileNuls == {<<NUL>>, <<>>}
FileContents == UNION {[1..n -> {97, SP}] : n \in 0..MaxContent}

ReadStart ==
    /\ \E t \in FileTypeNames, s \in FileSpaces, l \in FileLengths, z \in FileNuls,
          c \in FileContents, zlib \in BOOLEAN :
          objects = [d \in {DigestB} |-> [zlib |-> zlib, data |-> t \o s \o l \o z \o c]]
    /\ ob_before = objects /\ ob_written = <<>> /\ ob_last = NoOp

ReadNext == \E sha \in ReadNames(objects) : ObRead(sha)

ReadInit == ReadStart /\ KvIdle /\ TrIdle /\ RfIdle /\ IgIdle /\ IxIdle /\ CoIdle /\ FoIdle /\ StIdle /\ RpIdle

SpecObjRead == ReadInit /\ [][ReadNext]_vars

\* the decompressed bytes of the file read asked for, and their header
ReadBytes == objects[ob_last.name].data
ReadTypeEnd == Position(ReadBytes, SP, 1)
ReadSizeEnd == IF ReadTypeEnd = 0 THEN 0 ELSE Position(ReadBytes, NUL, ReadTypeEnd)
ReadTypeName == SubSeq(ReadBytes, 1, ReadTypeEnd - 1)
ReadLength == SubSeq(ReadBytes, ReadTypeEnd + 1, ReadSizeEnd - 1)
ReadIsDecimal == Len(ReadLength) > 0 /\ \A i \in 1..Len(ReadLength) : IsDigit(ReadLength[i])
ReadAfterNul == From(ReadBytes, ReadSizeEnd + 1)

\* read was asked for a file that exists and decompresses
ReadOfFile ==
    ob_last.op = "read" /\ ob_last.name \in DOMAIN objects /\ objects[ob_last.name].zlib

\* the error cases of read are errors: no file, no space, no NUL after the
\* space, a decimal length that is not the number of bytes after the NUL
ReadErrorCases ==
    /\ (ob_last.op = "read" /\ ob_last.name \notin DOMAIN objects) => ob_last.res.tag = "Err"
    /\ (ReadOfFile /\ ReadTypeEnd = 0) => ob_last.res.tag = "Err"
    /\ (ReadOfFile /\ ReadTypeEnd # 0 /\ ReadSizeEnd = 0) => ob_last.res.tag = "Err"
    /\ (ReadOfFile /\ ReadSizeEnd # 0 /\ ReadIsDecimal
            /\ DecimalValue(ReadLength, 0) # Len(ReadAfterNul)) => ob_last.res.tag = "Err"

\* a file with a recognised type name and a decimal length that is the number
\* of bytes after the NUL
ReadWellFormed ==
    /\ ReadOfFile /\ ReadSizeEnd # 0
    /\ \E t \in ObjectTypes : ReadTypeName = TypeName(t)
    /\ ReadIsDecimal /\ DecimalValue(ReadLength, 0) = Len(ReadAfterNul)

\* C3: read returns an error, never an object and never a panic, when no
\* file exists at the digest's path, when the decompressed bytes hold no
\* space, when no NUL follows the header, and when the declared decimal length
\* is not the number of bytes after the NUL; in every other case with a
\* recognised type name it returns the object of that type built from the
\* bytes after the NUL.
C3_ReadErrorsAndObjects ==
    /\ ReadErrorCases
    /\ ReadWellFormed =>
          /\ ob_last.res.tag = "Ok"
          /\ TypeName(ob_last.res.val.type) = ReadTypeName

\* the part of the claim on well-formed files that holds: blobs
ReadBlobIsContent ==
    (ReadWellFormed /\ ReadTypeName = TypeName("blob")) =>
        ob_last.res = OpResult(Ok([type |-> "blob", body |-> ReadAfterNul]))

\* the digest stands for Sha1 only if distinct contents get distinct digests
HashInjective ==
    \A k1, k2 \in DOMAIN ob_written :
        ob_written[k1] = ob_written[k2] =>
            ObjPayload(ObjDeserialize(k1[2], k1[1]).val) = ObjPayload(ObjDeserialize(k2[2], k2[1]).val)

\* the last operation was a write of data as object_type
WroteAs(object_type, data) ==
    ob_last.op = "write" /\ ob_last.type = object_type /\ ob_last.data = data

\* read of the digest the last write returned gives an object_type object
\* whose serialization is data
ReadsBack(object_type, data) ==
    /\ ob_last.res.tag = "Ok"
    /\ LET r == ObjRead(objects, ob_last.res.val)
       IN  /\ r.tag = "Ok"
           /\ r.val.type = object_type
           /\ ObjSerialize(r.val) = data

\* C1: for every payload p and every kind k, writing p as kind k and then
\* reading the returned digest succeeds and yields an object of kind k whose
\* serialized payload is exactly p.
C1_ObjectRoundTrip ==
    \A k \in ObjectTypes, p \in ObjPayloads : WroteAs(k, p) => ReadsBack(k, p)

\* the part of the object round trip that holds: blobs read back as written
BlobRoundTrip ==
    \A p \in ObjPayloads : WroteAs("blob", p) => ReadsBack("blob", p)

\* C2: writing the same (payload, kind) again, whatever was written in
\* between, returns the digest the first write returned, does not fail, and
\* leaves the object store as it was: the same paths, the same content.
C2_WriteIdempotent ==
    (ob_last.op = "write" /\ ob_last.repeat) =>
        /\ ob_last.res.tag = "Ok"
        /\ ob_last.res.val = ob_written[<<ob_last.type, ob_last.data>>]
        /\ objects = ob_before
        /\ ob_last.res.val \in DOMAIN objects

\* a (payload, kind) was written a second time after another object was
\* written to the store
C2_Witness ==
    /\ ob_last.op = "write" /\ ob_last.repeat
    /\ Cardinality(DOMAIN objects) = 2
    /\ ob_last.res.tag = "Ok"

\* a write that fails is the panic of deserialize: it fails every time, and
\* the store is not touched
FailedWriteLeavesStore ==
    (ob_last.op = "write" /\ ob_last.res.tag # "Ok") =>
        /\ objects = ob_before
        /\ <<ob_last.type, ob_last.data>> \notin DOMAIN ob_written

\* the stored digests that start with the lower-cased name
DigestsStarting(name) == {d \in DOMAIN objects : StartsWith(d, ToLowercase(name))}

\* the last operation was find of an all-hex name of two characters or more
FoundHexName ==
    /\ ob_last.op = "find"
    /\ Len(ob_last.name) >= 2
    /\ \A i \in 1..Len(ob_last.name) : IsHexDigit(ob_last.name[i])

\* C8: find of an all-hex name of length >= 2 is an error when no stored
\* digest starts with the lower-cased name, is that digest when exactly one
\* does, and is the Ambiguous error listing every such digest when two or
\* more do.
C8_PrefixCardinality ==
    FoundHexName =>
        LET M == DigestsStarting(ob_last.name)
            r == ob_last.res
        IN  /\ M = {} => r.tag = "Err" /\ r.val # "Ambiguous reference"
            /\ Cardinality(M) = 1 => r.tag = "Ok" /\ r.val \in M
            /\ Cardinality(M) >= 2 =>
                  /\ r.tag = "Err" /\ r.val = "Ambiguous reference"
                  /\ {r.candidates[i] : i \in 1..Len(r.candidates)} = M
                  /\ Len(r.candidates) = Cardinality(M)

\* find was given a name in upper case that two stored digests start with
C8_Witness ==
    /\ FoundHexName
    /\ ob_last.name # ToLowercase(ob_last.name)
    /\ Cardinality(DigestsStarting(ob_last.name)) = 2
    /\ ob_last.res.val = "Ambiguous reference"

(***************************************************************************)
(* Ignore matcher: rules, glob patterns, check                             *)
(***************************************************************************)
BANG == 33
HASH == 35
STAR == 42
QMARK == 63
BACKSLASH == 92

\* is_whitespace on the bytes in use, and str::trim
IsSpace(b) == b \in {SP, NL, 9, 13}
RECURSIVE TrimStart(_)
TrimStart(raw) ==
    IF raw # <<>> /\ IsSpace(raw[1]) THEN TrimStart(From(raw, 2)) ELSE raw
RECURSIVE TrimEnd(_)
TrimEnd(raw) ==
    IF raw # <<>> /\ IsSpace(raw[Len(raw)]) THEN TrimEnd(SubSeq(raw, 1, Len(raw) - 1)) ELSE raw
Trim(raw) == TrimEnd(TrimStart(raw))

RECURSIVE GlobMatchesFrom(_, _, _, _)
\* glob::Pattern::matches with the default MatchOptions, for patterns of
\* literal characters, '?' and '*': the pattern covers the whole text, '?' is
\* any one character and '*' any run of characters, '/' not excepted
\* (require_literal_separator is false)
GlobMatchesFrom(pat, i, text, j) ==
    IF i > Len(pat) THEN j > Len(text)
    ELSE IF pat[i] = STAR
    THEN \E k \in j..(Len(text) + 1) : GlobMatchesFrom(pat, i + 1, text, k)
    ELSE IF j > Len(text) THEN FALSE
    ELSE IF pat[i] = QMARK THEN GlobMatchesFrom(pat, i + 1, text, j + 1)
    ELSE pat[i] = text[j] /\ GlobMatchesFrom(pat, i + 1, text, j + 1)

\* glob::Pattern::matches_path: the pattern against the path as one string
MatchesPath(pat, path) == GlobMatchesFrom(pat, 1, path, 1)

\* IgnoreRule::parse
IgnoreRuleParse(raw) ==
    LET trimmed == Trim(raw)
    IN  IF trimmed = <<>> \/ trimmed[1] = HASH THEN None
        ELSE CASE trimmed[1] = BANG -> Some([pat |-> From(trimmed, 2), kind |-> "Include"])
               [] trimmed[1] = BACKSLASH -> Some([pat |-> From(trimmed, 2), kind |-> "Exclude"])
               [] OTHER -> Some([pat |-> trimmed, kind |-> "Exclude"])

RECURSIVE ParseLines(_)
\* IgnoreRule::parse_lines: the rules of the lines that are rules, in order
ParseLines(lines) ==
    IF lines = <<>> THEN <<>>
    ELSE LET rule == IgnoreRuleParse(lines[1])
         IN  (IF rule.some THEN <<rule.val>> ELSE <<>>) \o ParseLines(From(lines, 2))

\* str::lines: the text cut at every '\n', a last empty piece dropped
Lines(data) ==
    LET pieces == SplitOn(data, NL)
    IN  IF pieces[Len(pieces)] = <<>> THEN SubSeq(pieces, 1, Len(pieces) - 1) ELSE pieces

\* Path::parent: the path without its last component; "" for a single
\* component; None for ""
PathParent(path) ==
    IF path = <<>> THEN None
    ELSE LET parts == SplitOn(path, SLASH)
         IN  Some(JoinWith(SubSeq(parts, 1, Len(parts) - 1), SLASH))

RECURSIVE Successors(_)
\* iter::successors(first, |p| p.parent()): first and its ancestors, nearest first
Successors(first) ==
    IF ~first.some THEN <<>>
    ELSE <<first.val>> \o Successors(PathParent(first.val))

RECURSIVE MatchesRulesFrom(_, _, _)
\* IgnoreRules::matches_rules: the kind of the first rule whose pattern matches
MatchesRulesFrom(rules, path, i) ==
    IF i > Len(rules) THEN None
    ELSE IF MatchesPath(rules[i].pat, path) THEN Some(rules[i].kind)
    ELSE MatchesRulesFrom(rules, path, i + 1)

MatchesRules(rules, path) == MatchesRulesFrom(rules, path, 1)

\* a slip: the nearest directory that has a rule set decides, match or not
FindMapNearestRuleSet(relative, parents, path, i) ==
    IF \E k \in i..Len(parents) : parents[k] \in DOMAIN relative
    THEN LET k == CHOOSE k \in i..Len(parents) :
                      /\ parents[k] \in DOMAIN relative
                      /\ \A j \in i..(k - 1) : parents[j] \notin DOMAIN relative
         IN  MatchesRules(relative[parents[k]], path)
    ELSE None

RECURSIVE FindMap(_, _, _, _)
\* find_map over the ancestors: the first directory whose rule set gives a verdict
FindMap(relative, parents, path, i) ==
    IF i > Len(parents) THEN None
    ELSE LET verdict == IF parents[i] \in DOMAIN relative
                        THEN MatchesRules(relative[parents[i]], path)
                        ELSE None
         IN  IF verdict.some THEN verdict ELSE FindMap(relative, parents, path, i + 1)

\* IgnoreRules::check
IgnoreCheck(relative, path) == FindMap(relative, Successors(PathParent(path)), path, 1)

(***************************************************************************)
(* Ignore matcher: the operations and their inputs                         *)
(***************************************************************************)
MaxLines == 2        \* lines in the ignore file of a/b

DirAB == <<97, 47, 98>>
DirA == <<97>>
LineStarLog == <<42, 46, 108, 111, 103>>
LineNotKeepLog == <<33, 107, 101, 101, 112, 46, 108, 111, 103>>
\* the lines an ignore file is made of: "*.log", "!keep.log",
\* "!a/b/keep.log", "#x", "", "\#x", " ?.log "
IgnoreLines ==
    {LineStarLog, LineNotKeepLog, <<33, 97, 47, 98, 47, 107, 101, 101, 112, 46, 108, 111, 103>>, <<35, 120>>, <<>>, <<92, 35, 120>>, <<32, 63, 46, 108, 111, 103, 32>>}

PathKeepLog == <<97, 47, 98, 47, 107, 101, 101, 112, 46, 108, 111, 103>>
PathXLog == <<97, 47, 98, 47, 120, 46, 108, 111, 103>>
\* the paths checked: a/b/keep.log, a/b/x.log, a/b/c/y.log, a/#x, z.log
IgnorePaths == {PathKeepLog, PathXLog, <<97, 47, 98, 47, 99, 47, 121, 46, 108, 111, 103>>, <<97, 47, 35, 120>>, <<122, 46, 108, 111, 103>>}

\* the file of the lines: each line and its '\n'
FileOfLines(lines) == Concat([i \in 1..Len(lines) |-> lines[i] \o <<NL>>])

\* the tracked ignore files: one in a/b of up to MaxLines lines, and in a
\* none or one that holds "\#x" and "!*.log"
IgStart ==
    /\ \E lines \in UNION {[1..n -> IgnoreLines] : n \in 0..MaxLines}, above \in BOOLEAN :
          ig_files = [d \in {DirAB} \cup (IF above THEN {DirA} ELSE {}) |->
                         IF d = DirAB THEN FileOfLines(lines)
                         ELSE FileOfLines(<<<<92, 35, 120>>, <<33, 42, 46, 108, 111, 103>>>>)]
    /\ ig_relative = [read |-> FALSE, rules |-> <<>>]
    /\ ig_last = [op |-> "none", path |-> <<>>, res |-> None]

\* IgnoreRules::read, from the blob data of each ignore file on: its lines
\* parsed, keyed by the directory of the file
IgRead ==
    /\ ~ig_relative.read
    /\ ig_relative' = [read |-> TRUE,
                       rules |-> [d \in DOMAIN ig_files |-> ParseLines(Lines(ig_files[d]))]]
    /\ UNCHANGED <<ig_files, ig_last, kvvars, trvars, rfvars, obvars, ixvars, covars, fovars, stvars, rpvars>>

\* IgnoreRules::check(path)
IgCheck(path) ==
    /\ ig_relative.read
    /\ ig_last' = [op |-> "check", path |-> path, res |-> IgnoreCheck(ig_relative.rules, path)]
    /\ UNCHANGED <<ig_files, ig_relative, kvvars, trvars, rfvars, obvars, ixvars, covars, fovars, stvars, rpvars>>

IgNext ==
    \/ IgRead
    \/ \E path \in IgnorePaths : IgCheck(path)

IgInit == IgStart /\ KvIdle /\ TrIdle /\ RfIdle /\ ObIdle /\ IxIdle /\ CoIdle /\ FoIdle /\ StIdle /\ RpIdle

SpecIgnore == IgInit /\ [][IgNext]_vars

\* the rule set at a/b holds the Exclude pattern "*.log" and the Include
\* pattern of "!keep.log", in either order, and no other directory has rules
NegationRules ==
    /\ ig_relative.read
    /\ DOMAIN ig_relative.rules = {DirAB}
    /\ \E first, second \in {[pat |-> LineStarLog, kind |-> "Exclude"],
                             [pat |-> From(LineNotKeepLog, 2), kind |-> "Include"]} :
          first # second /\ ig_relative.rules[DirAB] = <<first, second>>

\* C10: with the Exclude pattern "*.log" and the Include pattern "!keep.log"
\* in the rule set of a/b, check of a/b/keep.log is Include and check of
\* a/b/x.log is Exclude.
C10_NegationVerdicts ==
    (NegationRules /\ ig_last.op = "check") =>
        /\ ig_last.path = PathKeepLog => ig_last.res = Some("Include")
        /\ ig_last.path = PathXLog => ig_last.res = Some("Exclude")

\* the half of the claim that holds: a/b/x.log is excluded
XLogExcluded ==
    (NegationRules /\ ig_last.op = "check" /\ ig_last.path = PathXLog) =>
        ig_last.res = Some("Exclude")

\* the directories above a path, each with its depth: "" (0), the first
\* component (1), ..., the parent of the path
AncestorAt(path, depth) ==
    JoinWith(SubSeq(SplitOn(path, SLASH), 1, depth), SLASH)
AncestorDepths(path) == 0..(Len(SplitOn(path, SLASH)) - 1)

\* the rules of the directory at that depth above the path that match the path
MatchingRulesAt(path, depth) ==
    LET dir == AncestorAt(path, depth)
    IN  IF dir \in DOMAIN ig_relative.rules
        THEN {i \in 1..Len(ig_relative.rules[dir]) :
                 MatchesPath(ig_relative.rules[dir][i].pat, path)}
        ELSE {}

\* C11: check returns the verdict of the first rule in source order that
\* matches, taken from the nearest directory above the path whose rule set
\* has a matching rule; a directory without a rule set or without a matching
\* rule is passed over for the next one up; if no directory above the path
\* has a matching rule the result is None.
C11_AncestorFallback ==
    ig_last.op = "check" =>
        LET path == ig_last.path
            deciding == {n \in AncestorDepths(path) : MatchingRulesAt(path, n) # {}}
        IN  IF deciding = {} THEN ig_last.res = None
            ELSE LET n == CHOOSE n \in deciding : \A m \in deciding : m <= n
                     i == CHOOSE i \in MatchingRulesAt(path, n) :
                              \A j \in MatchingRulesAt(path, n) : i <= j
                 IN  ig_last.res = Some(ig_relative.rules[AncestorAt(path, n)][i].kind)

\* a path under a/b/c was checked: a/b/c has no rule set, a/b has one in
\* which nothing matches, and the verdict came from a
C11_Witness ==
    /\ ig_last.op = "check"
    /\ Len(SplitOn(ig_last.path, SLASH)) = 4
    /\ DirAB \in DOMAIN ig_relative.rules /\ ig_relative.rules[DirAB] # <<>>
    /\ MatchingRulesAt(ig_last.path, 2) = {}
    /\ MatchingRulesAt(ig_last.path, 1) # {}
    /\ ig_last.res = Some("Include")

\* a path under a/b/c was checked and a/b's first matching rule decided
FallbackToAB ==
    /\ ig_last.op = "check"
    /\ Len(SplitOn(ig_last.path, SLASH)) = 4
    /\ MatchingRulesAt(ig_last.path, 2) # {}
    /\ ig_last.res = Some("Exclude")

(***************************************************************************)
(* Index codec: entries, file format, read and write                       *)
(***************************************************************************)
\* "DIRC"
INDEX_SIGNATURE == <<68, 73, 82, 67>>
INDEX_VERSION == 2
SHA_BYTES == 20
\* the bytes before the entries: signature, version, count
IndexHeaderLen == 12
\* a SystemTime is its distance from UNIX_EPOCH in ticks, negative before the
\* epoch; a second is TicksPerSec ticks
TicksPerSec == 2

RECURSIVE ToBeBytes(_, _)
\* to_be_bytes of an unsigned integer of w bytes
ToBeBytes(n, w) ==
    IF w = 0 THEN <<>> ELSE ToBeBytes(n \div 256, w - 1) \o <<n % 256>>

RECURSIVE FromBeBytes(_, _)
\* from_be_bytes: the bytes folded into acc, most significant first
FromBeBytes(bytes, acc) ==
    IF bytes = <<>> THEN acc ELSE FromBeBytes(From(bytes, 2), acc * 256 + bytes[1])

\* the value of a hex digit of either case, 16 for any other byte
HexValue(c) ==
    IF IsDigit(c) THEN c - ZERO
    ELSE IF c >= 97 /\ c <= 102 THEN c - 87
    ELSE IF c >= 65 /\ c <= 70 THEN c - 55
    ELSE 16

\* hex::decode: Ok(bytes), or Err for an odd length or a byte that is no digit
HexDecode(text) ==
    IF Len(text) % 2 = 1 \/ \E i \in 1..Len(text) : HexValue(text[i]) = 16
    THEN Err("invalid hex")
    ELSE Ok([i \in 1..(Len(text) \div 2) |->
                16 * HexValue(text[2 * i - 1]) + HexValue(text[2 * i])])

\* IndexEntry::system_time_to_secs: whole seconds from the epoch to t; for a
\* time before the epoch, the whole seconds from t to the epoch
SystemTimeToSecs(t) == IF t >= 0 THEN t \div TicksPerSec ELSE (0 - t) \div TicksPerSec

\* IndexEntry::secs_to_system_time
SecsToSystemTime(secs) == secs * TicksPerSec

\* IndexEntry::to_bytes: Ok(bytes), or the panic of an expect or the assert
IndexEntryToBytes(e) ==
    LET raw_sha == HexDecode(e.sha)
        path_bytes == Utf8Lossy(e.path)
    IN  IF raw_sha.tag # "Ok"
        THEN Panic("sha field must contain a valid 40-char hex string")
        ELSE IF Len(raw_sha.val) # SHA_BYTES THEN Panic("hash must be 20 bytes/160 bits")
        ELSE IF Len(path_bytes) > 65535
        THEN Panic("Paths longer than 65 535 bytes are unsupported")
        ELSE Ok(ToBeBytes(SystemTimeToSecs(e.mtime), 8) \o raw_sha.val
                \o ToBeBytes(e.size_in_bytes, 8)
                \o ToBeBytes(Len(path_bytes), 2) \o path_bytes)

RECURSIVE IsUtf8(_)
\* str::from_utf8(..).is_ok() on the bytes in use: ASCII and the three bytes
\* of U+FFFD are well formed, any other byte is not
IsUtf8(bytes) ==
    IF bytes = <<>> THEN TRUE
    ELSE IF bytes[1] <= 127 THEN IsUtf8(From(bytes, 2))
    ELSE Len(bytes) >= 3 /\ SubSeq(bytes, 1, 3) = <<239, 191, 189>> /\ IsUtf8(From(bytes, 4))

\* IndexEntry::take_from: Some of the entry and the rest of the slice, None
\* when the slice is too short, the panic of from_utf8(..).unwrap()
IndexEntryTakeFrom(buf) ==
    IF Len(buf) < 8 + SHA_BYTES + 8 + 2 THEN [tag |-> "None"]
    ELSE LET secs == FromBeBytes(SubSeq(buf, 1, 8), 0)
             sha_hex == HexEncode(SubSeq(buf, 9, 8 + SHA_BYTES))
             size_in_bytes == FromBeBytes(SubSeq(buf, 9 + SHA_BYTES, 16 + SHA_BYTES), 0)
             len == FromBeBytes(SubSeq(buf, 17 + SHA_BYTES, 18 + SHA_BYTES), 0)
             rest == From(buf, 19 + SHA_BYTES)
         IN  IF Len(rest) < len THEN [tag |-> "None"]
             ELSE IF ~IsUtf8(SubSeq(rest, 1, len))
             THEN [tag |-> "Panic", val |-> "called Result::unwrap() on an Err value"]
             ELSE [tag |-> "Some",
                   val |-> [mtime |-> SecsToSystemTime(secs), sha |-> sha_hex,
                            size_in_bytes |-> size_in_bytes, path |-> SubSeq(rest, 1, len)],
                   rest |-> From(rest, len + 1)]

RECURSIVE IndexTakeEntries(_, _, _)
\* the for loop of Index::read: count entries taken from the cursor
IndexTakeEntries(cursor, count, entries) ==
    IF count = 0 THEN [tag |-> "Some", val |-> entries]
    ELSE LET entry == IndexEntryTakeFrom(cursor)
         IN  IF entry.tag # "Some" THEN [tag |-> entry.tag, val |-> <<>>]
             ELSE IndexTakeEntries(entry.rest, count - 1, Append(entries, entry.val))

\* a slip: the version read and kept but not compared with INDEX_VERSION
IndexReadAnyVersion(file) ==
    IF ~file.exists THEN [tag |-> "Some", val |-> [version |-> 0, entries |-> <<>>]]
    ELSE IF Len(file.data) < IndexHeaderLen \/ SubSeq(file.data, 1, 4) # INDEX_SIGNATURE
    THEN [tag |-> "None", val |-> <<>>]
    ELSE LET taken == IndexTakeEntries(From(file.data, IndexHeaderLen + 1),
                                       FromBeBytes(SubSeq(file.data, 9, 12), 0), <<>>)
         IN  IF taken.tag # "Some" THEN taken
             ELSE [tag |-> "Some",
                   val |-> [version |-> FromBeBytes(SubSeq(file.data, 5, 8), 0),
                            entries |-> taken.val]]

\* Index::read: Some(index), None, or the panic of take_from
IndexRead(file) ==
    IF ~file.exists THEN [tag |-> "Some", val |-> [version |-> 0, entries |-> <<>>]]
    ELSE LET data == file.data
         IN  IF Len(data) < IndexHeaderLen \/ SubSeq(data, 1, 4) # INDEX_SIGNATURE
             THEN [tag |-> "None", val |-> <<>>]
             ELSE LET version == FromBeBytes(SubSeq(data, 5, 8), 0)
                      count == FromBeBytes(SubSeq(data, 9, 12), 0)
                      taken == IndexTakeEntries(From(data, IndexHeaderLen + 1), count, <<>>)
                  IN  IF version # INDEX_VERSION THEN [tag |-> "None", val |-> <<>>]
                      ELSE IF taken.tag # "Some" THEN taken
                      ELSE [tag |-> "Some", val |-> [version |-> version, entries |-> taken.val]]

RECURSIVE IndexWriteEntries(_, _, _)
\* the for loop of Index::write from the i-th entry on: the bytes in the
\* file when the loop ends or an entry's to_bytes panics
IndexWriteEntries(entries, i, data) ==
    IF i > Len(entries) THEN [res |-> Ok(<<>>), data |-> data]
    ELSE LET bytes == IndexEntryToBytes(entries[i])
         IN  IF bytes.tag # "Ok" THEN [res |-> bytes, data |-> data]
             ELSE IndexWriteEntries(entries, i + 1, data \o bytes.val)

\* Index::write: File::create empties the file, then the header and the
\* entries are written to it
IndexWrite(entries) ==
    IndexWriteEntries(entries, 1,
        INDEX_SIGNATURE \o ToBeBytes(INDEX_VERSION, 4) \o ToBeBytes(Len(entries), 4))

(***************************************************************************)
(* Index codec: the operations and their inputs                            *)
(***************************************************************************)
MaxEntries == 2      \* entries of a written index

\* the entries written: a modification time a second and a half after or
\* before the epoch, one of two digests, a size of one or two significant
\* bytes, the path "/a" or a path whose second byte (0xFF) is not UTF-8
IxMtimes == {TicksPerSec + 1, 0 - (TicksPerSec + 1)}
IxSizes == {0, 258}
IxPaths == {<<SLASH, 97>>, <<SLASH, 255>>}
IxEntries ==
    [mtime : IxMtimes, sha : {DigestA, DigestB}, size_in_bytes : IxSizes, path : IxPaths]
IxEntryLists(n) == UNION {[1..k -> IxEntries] : k \in 0..n}

IxStart ==
    /\ ix_file = [exists |-> FALSE, data |-> <<>>]
    /\ ix_mem \in IxEntryLists(MaxEntries)
    /\ ix_last = [op |-> "none", res |-> [some |-> FALSE]]

\* Index::write of the Index held in memory
IxWrite ==
    /\ ix_file' = [exists |-> TRUE, data |-> IndexWrite(ix_mem).data]
    /\ ix_last' = [op |-> "write", res |-> IndexWrite(ix_mem).res]
    /\ UNCHANGED <<ix_mem, kvvars, trvars, rfvars, obvars, igvars, covars, fovars, stvars, rpvars>>

\* Index::read
IxRead ==
    /\ ix_last' = [op |-> "read", res |-> IndexRead(ix_file)]
    /\ UNCHANGED <<ix_file, ix_mem, kvvars, trvars, rfvars, obvars, igvars, covars, fovars, stvars, rpvars>>

IxNext == IxWrite \/ IxRead

IxInit == IxStart /\ KvIdle /\ TrIdle /\ RfIdle /\ ObIdle /\ IgIdle /\ CoIdle /\ FoIdle /\ StIdle /\ RpIdle

SpecIndex == IxInit /\ [][IxNext]_vars

\* a time cut down to whole seconds
WholeSeconds(t) == t - (t % TicksPerSec)

\* the index was written and then read
ReadAfterWrite == ix_last.op = "read" /\ ix_file.exists

\* the entry read back is the entry written, its mtime in whole seconds
SameEntry(read, written) ==
    /\ read.sha = written.sha
    /\ read.size_in_bytes = written.size_in_bytes
    /\ read.path = written.path
    /\ read.mtime = WholeSeconds(written.mtime)

\* C12: Index::write of N entries followed by Index::read returns exactly N
\* entries in the same order, each with the digest, size and path written
\* and the mtime written cut down to whole seconds.
C12_IndexRoundTrip ==
    ReadAfterWrite =>
        /\ ix_last.res.tag = "Some"
        /\ Len(ix_last.res.val.entries) = Len(ix_mem)
        /\ \A i \in 1..Len(ix_mem) : SameEntry(ix_last.res.val.entries[i], ix_mem[i])

\* the entries the file format can hold: a time not before the epoch, a
\* path that is UTF-8
WithinFormat(e) == e.mtime >= 0 /\ \A i \in 1..Len(e.path) : e.path[i] <= 127

\* the part of the round trip that holds: entries the format can hold
RoundTripWithinFormat ==
    (ReadAfterWrite /\ \A i \in 1..Len(ix_mem) : WithinFormat(ix_mem[i])) =>
        /\ ix_last.res.tag = "Some"
        /\ Len(ix_last.res.val.entries) = Len(ix_mem)
        /\ \A i \in 1..Len(ix_mem) : SameEntry(ix_last.res.val.entries[i], ix_mem[i])

\* the count, the order, the digests and the sizes are kept whatever the entries
RoundTripCountAndOrder ==
    ReadAfterWrite =>
        /\ ix_last.res.tag = "Some"
        /\ Len(ix_last.res.val.entries) = Len(ix_mem)
        /\ \A i \in 1..Len(ix_mem) :
              /\ ix_last.res.val.entries[i].sha = ix_mem[i].sha
              /\ ix_last.res.val.entries[i].size_in_bytes = ix_mem[i].size_in_bytes

(***************************************************************************)
(* Index::read on an index file that anything may have written             *)
(***************************************************************************)
MaxRecords == 2      \* complete entry records in the file

\* the pieces of the file: a signature, a version, a count, complete
\* records, and a tail that is no complete record
FileSignatures == {INDEX_SIGNATURE, <<68, 73, 82, 88>>}
FileVersions == {ToBeBytes(INDEX_VERSION, 4), ToBeBytes(INDEX_VERSION + 1, 4),
                 <<INDEX_VERSION, 0, 0, 0>>, ToBeBytes(0, 4)}
\* a record of path "a", one of an empty path, one whose path byte is not UTF-8
FileRecord(path) ==
    ToBeBytes(1, 8) \o [i \in 1..SHA_BYTES |-> 161] \o ToBeBytes(1, 8)
        \o ToBeBytes(Len(path), 2) \o path
FileRecords == {FileRecord(<<97>>), FileRecord(<<>>), FileRecord(<<255>>)}
\* nothing, the fixed fields of a record cut one byte short, a record whose
\* path is shorter than its length field says
FileTails ==
    {<<>>, SubSeq(FileRecord(<<>>), 1, 8 + SHA_BYTES + 8 + 1),
     SubSeq(FileRecord(<<97, 98>>), 1, 8 + SHA_BYTES + 8 + 2 + 1)}
\* the lengths a file is cut to: not cut (0), or cut inside the header
FileCuts == {0, 3, IndexHeaderLen - 1}

IxFileStart ==
    /\ \E sig \in FileSignatures, ver \in FileVersions, count \in 0..(MaxRecords + 1),
          recs \in UNION {[1..k -> FileRecords] : k \in 0..MaxRecords},
          tail \in FileTails, cut \in FileCuts :
          LET data == sig \o ver \o ToBeBytes(count, 4) \o Concat(recs) \o tail
          IN  ix_file = [exists |-> TRUE,
                         data |-> IF cut = 0 THEN data ELSE SubSeq(data, 1, cut)]
    /\ ix_mem = <<>>
    /\ ix_last = [op |-> "none", res |-> [some |-> FALSE]]

IxFileInit == IxFileStart /\ KvIdle /\ TrIdle /\ RfIdle /\ ObIdle /\ IgIdle /\ CoIdle /\ FoIdle /\ StIdle /\ RpIdle

SpecIndexRead == IxFileInit /\ [][IxRead]_vars

RECURSIVE CompleteRecords(_)
\* the complete records at the front of the bytes: the fixed fields and as
\* many path bytes as the length field says
CompleteRecords(buf) ==
    IF Len(buf) < 8 + SHA_BYTES + 8 + 2 THEN <<>>
    ELSE LET len == buf[8 + SHA_BYTES + 8 + 1] * 256 + buf[8 + SHA_BYTES + 8 + 2]
             end == 8 + SHA_BYTES + 8 + 2 + len
         IN  IF Len(buf) < end THEN <<>>
             ELSE <<SubSeq(buf, 8 + SHA_BYTES + 8 + 3, end)>> \o CompleteRecords(From(buf, end + 1))

\* the header of the file read: long enough, the signature, the version
HeaderAccepted ==
    /\ Len(ix_file.data) >= IndexHeaderLen
    /\ SubSeq(ix_file.data, 1, 4) = INDEX_SIGNATURE
    /\ SubSeq(ix_file.data, 5, 8) = <<0, 0, 0, INDEX_VERSION>>

\* the count declared in an accepted header, the entries present after it
DeclaredCount ==
    16777216 * ix_file.data[9] + 65536 * ix_file.data[10] + 256 * ix_file.data[11]
        + ix_file.data[12]
EntriesPresent == CompleteRecords(From(ix_file.data, IndexHeaderLen + 1))

CountExceedsEntries ==
    /\ ix_last.op = "read" /\ ix_last.res.tag = "None"
    /\ HeaderAccepted /\ DeclaredCount = 2 /\ Len(EntriesPresent) = 1

\* a record whose path is not UTF-8, within the declared count, makes read
\* panic instead
ReadPanicsOnPath ==
    (ix_last.op = "read" /\ ix_last.res.tag = "Panic") =>
        /\ HeaderAccepted
        /\ \E i \in 1..Len(EntriesPresent) : i <= DeclaredCount /\ ~IsUtf8(EntriesPresent[i])

\* ---------------------------------------------------------------------------
\* Checkout (object/tree.rs): a tree written into a destination directory.
\* The destination is a function from a path below it, a byte string with
\* SLASH between components, to what lies there: a directory or a file.
\* ---------------------------------------------------------------------------

\* Path::join of a relative path; the destination itself is the empty path
PathJoin(path, rel) == IF path = <<>> THEN rel ELSE path \o <<SLASH>> \o rel

DirNode == [kind |-> "dir", data |-> <<>>]
FileNode(data) == [kind |-> "file", data |-> data]

\* a directory to create into exists: the destination, or a directory in it
IsDirIn(fs, path) == path = <<>> \/ (path \in DOMAIN fs /\ fs[path].kind = "dir")

FsPut(fs, path, node) ==
    [p \in DOMAIN fs \cup {path} |-> IF p = path THEN node ELSE fs[p]]

\* fs::create_dir: fails on an existing path and on a missing parent
FsCreateDir(fs, path) ==
    IF path \in DOMAIN fs THEN [res |-> Err("File exists"), fs |-> fs]
    ELSE IF ~IsDirIn(fs, PathParent(path).val)
    THEN [res |-> Err("No such file or directory"), fs |-> fs]
    ELSE [res |-> Ok(<<>>), fs |-> FsPut(fs, path, DirNode)]

\* fs::File::create then write_all: truncates a file, fails on a directory
FsCreateFile(fs, path, data) ==
    IF path \in DOMAIN fs /\ fs[path].kind = "dir"
    THEN [res |-> Err("Is a directory"), fs |-> fs]
    ELSE IF ~IsDirIn(fs, PathParent(path).val)
    THEN [res |-> Err("No such file or directory"), fs |-> fs]
    ELSE [res |-> Ok(<<>>), fs |-> FsPut(fs, path, FileNode(data))]

\* the error of the last arm of the match, with the two values it formats
UnexpectedObject(type, hash) ==
    [tag |-> "Err", val |-> "Unexpected object in tree", type |-> type, hash |-> hash]

\* Tree::checkout from record i on, the destination so far being fs
RECURSIVE TreeCheckoutFrom(_, _, _, _, _)
TreeCheckoutFrom(store, records, i, path, fs) ==
    IF i > Len(records) THEN [res |-> Ok(<<>>), fs |-> fs]
    ELSE
    LET record == records[i]
        obj == ObjRead(store, record.hash)
        dest == PathJoin(path, record.path)
    IN  IF obj.tag # "Ok" THEN [res |-> obj, fs |-> fs]
        ELSE IF obj.val.type = "tree"
        THEN LET made == FsCreateDir(fs, dest)
                 inner == TreeCheckoutFrom(store, obj.val.body, 1, dest, made.fs)
             IN  IF made.res.tag # "Ok" THEN made
                 ELSE IF inner.res.tag # "Ok" THEN inner
                 ELSE TreeCheckoutFrom(store, records, i + 1, path, inner.fs)
        ELSE IF obj.val.type = "blob"
        THEN LET made == FsCreateFile(fs, dest, ObjSerialize(obj.val))
             IN  IF made.res.tag # "Ok" THEN made
                 ELSE TreeCheckoutFrom(store, records, i + 1, path, made.fs)
        ELSE [res |-> UnexpectedObject(obj.val.type, record.hash), fs |-> fs]

TreeCheckout(store, records, fs) == TreeCheckoutFrom(store, records, 1, <<>>, fs)

\* ---------------------------------------------------------------------------
\* Checkout specification: a store holding a blob, an empty tree, a tree with
\* one blob entry and a commit, all put there by deserialize_and_write; then
\* Tree::checkout of a Tree value into the empty destination.
\* ---------------------------------------------------------------------------

MaxCheckoutEntries == 2

NameHelloTxt == <<104, 101, 108, 108, 111, 46, 116, 120, 116>>
ModeFile == <<49, 48, 48, 54, 52, 52>>
BlobHi == <<104, 105>>
CommitText == <<97, SP, 120, NL, NL, 109>>

\* the digest deserialize_and_write returns for data of a type
DigestOf(data, object_type) == ObjDeserializeAndWrite(<<>>, data, object_type).res.val

\* a tree payload of one entry in the stored format: mode, path, 20 digest bytes
TreeOfOne(path, digest) ==
    ModeFile \o <<SP>> \o path \o <<NUL>> \o HexDecode(digest).val

HelloTree == TreeOfOne(NameHelloTxt, DigestOf(BlobHi, "blob"))

\* the objects written, in the order written
CheckoutWrites ==
    <<[data |-> BlobHi, type |-> "blob"], [data |-> <<>>, type |-> "tree"],
      [data |-> HelloTree, type |-> "tree"], [data |-> CommitText, type |-> "commit"]>>

RECURSIVE StoreAfter(_, _, _)
StoreAfter(store, writes, i) ==
    IF i > Len(writes) THEN store
    ELSE StoreAfter(ObjDeserializeAndWrite(store, writes[i].data, writes[i].type).store,
                    writes, i + 1)

\* what the entries of the Tree value name: the objects written and one absent
CheckoutDigests ==
    {DigestOf(CheckoutWrites[i].data, CheckoutWrites[i].type) :
        i \in 1..Len(CheckoutWrites)} \cup {DigestA}

CheckoutPaths == {NameHelloTxt, <<100>>, <<101>>}

CheckoutLeaves ==
    [file_mode : {ModeFile}, path : CheckoutPaths, hash : CheckoutDigests]

\* Tree values of up to n entries, no two with one path
CheckoutTrees(n) ==
    {t \in UNION {[1..k -> CheckoutLeaves] : k \in 0..n} :
        \A i, j \in 1..Len(t) : t[i].path = t[j].path => i = j}

CoStart ==
    /\ co_tree \in CheckoutTrees(MaxCheckoutEntries)
    /\ co_dest = <<>>
    /\ co_last = [op |-> "none", res |-> Ok(<<>>)]
    /\ objects = StoreAfter(<<>>, CheckoutWrites, 1)
    /\ ob_before = <<>> /\ ob_written = <<>> /\ ob_last = NoOp
    /\ RfIdle

\* tree_obj.checkout(&repository, path) into the empty directory
CoCheckout ==
    /\ co_last.op = "none"
    /\ LET out == TreeCheckout(objects, co_tree, co_dest)
       IN  /\ co_dest' = out.fs
           /\ co_last' = [op |-> "checkout", res |-> out.res]
    /\ UNCHANGED <<co_tree, kvvars, trvars, rfvars, obvars, igvars, ixvars, fovars, stvars, rpvars>>

CoInit == CoStart /\ KvIdle /\ TrIdle /\ IgIdle /\ IxIdle /\ FoIdle /\ StIdle /\ RpIdle

SpecCheckout == CoInit /\ [][CoCheckout]_vars

\* The entries of a tree as the stored format gives them: path and the digest
\* in hexadecimal.  A Tree value handed to checkout carries the digests as
\* they are; a tree read from the store carries the 20 digest bytes of each
\* entry (all below 128 in the stores used here), hence HexEncode.
EntriesOfValue(records) ==
    [i \in 1..Len(records) |-> [path |-> records[i].path, digest |-> records[i].hash]]

EntriesOfStored(store, digest) ==
    LET records == ObjRead(store, digest).val.body
    IN  [i \in 1..Len(records) |->
            [path |-> records[i].path, digest |-> HexEncode(records[i].hash)]]

\* The destination the statement describes for entries i.. below path: every
\* blob entry a file with the blob's bytes, every tree entry a directory with
\* its own entries below it, a commit or tag entry an error naming it, in
\* order, nothing undone.
RECURSIVE Materialised(_, _, _, _, _)
Materialised(store, entries, i, path, fs) ==
    IF i > Len(entries) THEN [res |-> Ok(<<>>), fs |-> fs]
    ELSE
    LET entry == entries[i]
        obj == ObjRead(store, entry.digest)
        dest == PathJoin(path, entry.path)
    IN  IF obj.tag # "Ok" THEN [res |-> obj, fs |-> fs]
        ELSE IF obj.val.type = "tree"
        THEN LET inner == Materialised(store, EntriesOfStored(store, entry.digest), 1,
                                       dest, FsPut(fs, dest, DirNode))
             IN  IF inner.res.tag # "Ok" THEN inner
                 ELSE Materialised(store, entries, i + 1, path, inner.fs)
        ELSE IF obj.val.type = "blob"
        THEN Materialised(store, entries, i + 1, path,
                          FsPut(fs, dest, FileNode(obj.val.body)))
        ELSE [res |-> UnexpectedObject(obj.val.type, entry.digest), fs |-> fs]

CheckedOut == co_last.op = "checkout"

\* two results are the same: both Ok, or the same error
SameResult(a, b) == a.tag = b.tag /\ (a.tag # "Ok" => a.val = b.val /\ a = b)

\* C14: checkout into an empty destination ends as the entries say: a file
\* with the blob's bytes per blob entry, a directory per tree entry with the
\* subtree's entries materialised below it, an error naming digest and kind
\* at a commit or tag entry.
C14_CheckoutMaterialises ==
    CheckedOut =>
        LET want == Materialised(objects, EntriesOfValue(co_tree), 1, <<>>, <<>>)
        IN  SameResult(co_last.res, want.res) /\ co_dest = want.fs

\* a Tree value whose one entry names the stored tree holding hello.txt
NamesHelloTree ==
    /\ Len(co_tree) = 1
    /\ co_tree[1].hash = DigestOf(HelloTree, "tree")

\* the subtree's file is not written: its entry's digest is looked up as the
\* 20-byte string the tree reader made of it
C14_SubtreeLost ==
    /\ CheckedOut /\ NamesHelloTree
    /\ SameResult(co_last.res, Err("Object file does not exist"))
    /\ DOMAIN co_dest = {co_tree[1].path}

\* the statement's example holds for a Tree value naming the blob directly
CheckoutHelloTxt ==
    (CheckedOut /\ Len(co_tree) = 1 /\ co_tree[1].path = NameHelloTxt
        /\ co_tree[1].hash = DigestOf(BlobHi, "blob"))
    => /\ co_last.res.tag = "Ok"
       /\ co_dest = [p \in {NameHelloTxt} |-> FileNode(BlobHi)]

\* and the whole statement holds when no entry names a tree that has entries
CheckoutFlat ==
    (CheckedOut /\ \A i \in 1..Len(co_tree) : co_tree[i].hash # DigestOf(HelloTree, "tree"))
    => LET want == Materialised(objects, EntriesOfValue(co_tree), 1, <<>>, <<>>)
       IN  SameResult(co_last.res, want.res) /\ co_dest = want.fs

\* a commit entry stops the checkout with the error naming it
CheckoutStopsAtCommit ==
    /\ CheckedOut /\ Len(co_tree) = 2
    /\ SameResult(co_last.res, UnexpectedObject("commit", DigestOf(CommitText, "commit")))
    /\ DOMAIN co_dest = {co_tree[1].path}

\* ---------------------------------------------------------------------------
\* find with an expected type (object.rs find, find_with_options)
\* ---------------------------------------------------------------------------

KeyTree == <<116, 114, 101, 101>>
KeyObject == <<111, 98, 106, 101, 99, 116>>

\* Commit::get_tree_hash: get_key("tree").expect(..).first().expect(..)
CommitGetTreeHash(kvlm) ==
    IF KvGet(kvlm, KvSome(KeyTree)) = <<>> THEN Panic("Each commit must provide a tree")
    ELSE Ok(KvGet(kvlm, KvSome(KeyTree))[1])

\* Tag::get_object_hash, the same for the key "object"
TagGetObjectHash(kvlm) ==
    IF KvGet(kvlm, KvSome(KeyObject)) = <<>> THEN Panic("Each tag must provide an object")
    ELSE Ok(KvGet(kvlm, KvSome(KeyObject))[1])

RECURSIVE ObjFindWithOptions(_, _, _)
ObjFindWithOptions(store, sha, options) ==
    LET object == ObjRead(store, sha)
    IN  IF object.tag # "Ok" THEN object
        ELSE IF object.val.type = options.object_type THEN Ok(sha)
        ELSE IF ~options.should_follow THEN Err("Couldn't resolve object type")
        ELSE IF object.val.type = "commit" /\ options.object_type = "tree"
        THEN LET next == CommitGetTreeHash(object.val.body)
             IN  IF next.tag # "Ok" THEN next
                 ELSE ObjFindWithOptions(store, next.val, options)
        ELSE IF object.val.type = "tag"
        THEN LET next == TagGetObjectHash(object.val.body)
             IN  IF next.tag # "Ok" THEN next
                 ELSE ObjFindWithOptions(store, next.val, options)
        ELSE Err("No object matching requested type")

\* GitrsObject::find with options_opt
ObjFindOpt(store, files, name, listing, options_opt) ==
    LET found == ObjFind(store, files, name, listing)
    IN  IF found.tag # "Ok" \/ ~options_opt.some THEN found
        ELSE LET r == ObjFindWithOptions(store, found.val, options_opt.val)
             IN  [tag |-> r.tag, val |-> r.val, candidates |-> <<>>]

\* ---------------------------------------------------------------------------
\* Specification: a blob, a tree, a commit of the tree, a tag of the commit, a
\* tag of the blob and a commit without tree are written one after the other;
\* any find with an expected type in between.
\* ---------------------------------------------------------------------------

KeyTag == <<116, 97, 103>>

MaxFollowObjects == 4

\* the text of a commit or tag: one digest header, further headers, a message
KvObjectText(key, digest, more) ==
    key \o <<SP>> \o digest \o <<NL>> \o more \o <<NL, 109>>

\* the stored digests whose file is of a type
StoredOfType(store, object_type) ==
    {d \in DOMAIN store : StartsWith(store[d].data, TypeName(object_type) \o <<SP>>)}

\* what is written: a blob, the empty tree, a commit without tree, a commit
\* of a stored tree, a tag of a stored blob or commit
FollowWrites(store) ==
    {[data |-> BlobHi, type |-> "blob"], [data |-> <<>>, type |-> "tree"],
     [data |-> CommitText, type |-> "commit"]}
    \cup {[data |-> KvObjectText(KeyTree, d, <<>>), type |-> "commit"] :
              d \in StoredOfType(store, "tree")}
    \cup {[data |-> KvObjectText(KeyObject, d, KeyTag \o <<SP, 118, NL>>), type |-> "tag"] :
              d \in StoredOfType(store, "blob") \cup StoredOfType(store, "commit")}

FollowOptions == [object_type : {"blob", "commit", "tree"}, should_follow : BOOLEAN]

FoStart ==
    /\ fo_last = [op |-> "none", name |-> <<>>, options |-> None, res |-> Ok(<<>>)]
    /\ ObIdle /\ RfIdle

\* deserialize_and_write of one more object
FoWrite(w) ==
    /\ Cardinality(DOMAIN objects) < MaxFollowObjects
    /\ \E out \in {ObjDeserializeAndWrite(objects, w.data, w.type)} :
          /\ out.store # objects
          /\ objects' = out.store
          /\ fo_last' = [op |-> "write", name |-> <<>>, options |-> None, res |-> out.res]
    /\ UNCHANGED <<ob_last, ob_before, ob_written, kvvars, trvars, rfvars, igvars, ixvars, covars, stvars, rpvars>>

\* GitrsObject::find(repository, name, Some(options))
FoFind(name, options) ==
    /\ \E listing \in Orderings(HexCandidates(objects, name)) :
          fo_last' = [op |-> "find", name |-> name, options |-> Some(options),
                      res |-> ObjFindOpt(objects, refs, name, listing, Some(options))]
    /\ UNCHANGED <<kvvars, trvars, rfvars, obvars, igvars, ixvars, covars, stvars, rpvars>>

FoNext ==
    \/ \E w \in FollowWrites(objects) : FoWrite(w)
    \/ \E name \in DOMAIN objects \cup {DigestA}, options \in FollowOptions :
          FoFind(name, options)

FoInit == FoStart /\ KvIdle /\ TrIdle /\ IgIdle /\ IxIdle /\ CoIdle /\ StIdle /\ RpIdle

SpecFollow == FoInit /\ [][FoNext]_vars

\* the digest a stored commit or tag gives under key, as its text has it:
\* the characters of the first value up to the end of its line
DigestUnder(kvlm, key) ==
    LET v == KvGet(kvlm, KvSome(key))[1]
    IN  SubSeq(v, 1, IF Position(v, NL, 1) = 0 THEN Len(v) ELSE Position(v, NL, 1) - 1)

HasKey(kvlm, key) == KvGet(kvlm, KvSome(key)) # <<>>

\* The digest the statement gives for find of sha with an expected kind:
\* Some(digest of the first object of that kind reached), or None for a failure
RECURSIVE Followed(_, _, _)
Followed(store, sha, options) ==
    LET object == ObjRead(store, sha)
    IN  IF object.tag # "Ok" THEN None
        ELSE IF object.val.type = options.object_type THEN Some(sha)
        ELSE IF ~options.should_follow THEN None
        ELSE IF object.val.type = "commit" /\ options.object_type = "tree"
                /\ HasKey(object.val.body, KeyTree)
        THEN Followed(store, DigestUnder(object.val.body, KeyTree), options)
        ELSE IF object.val.type = "tag" /\ HasKey(object.val.body, KeyObject)
        THEN Followed(store, DigestUnder(object.val.body, KeyObject), options)
        ELSE None

FoFound == fo_last.op = "find"

\* C15: find with an expected kind returns the digest of the first object of
\* that kind reached by following commits to their tree and tags to their
\* object, and fails when follow is false or nothing further is defined.
C15_KindFollowing ==
    FoFound =>
        LET want == Followed(objects, fo_last.name, fo_last.options.val)
        IN  IF want.some THEN fo_last.res.tag = "Ok" /\ fo_last.res.val = want.val
            ELSE fo_last.res.tag # "Ok"

\* find of a stored commit's digest with expected kind tree, following, the
\* commit naming a stored tree under the key tree
FindsTreeOfCommit ==
    /\ FoFound
    /\ fo_last.name \in StoredOfType(objects, "commit")
    /\ fo_last.options.val = [object_type |-> "tree", should_follow |-> TRUE]
    /\ HasKey(ObjRead(objects, fo_last.name).val.body, KeyTree)
    /\ DigestUnder(ObjRead(objects, fo_last.name).val.body, KeyTree)
          \in StoredOfType(objects, "tree")

\* the statement's example fails: the value parsed under the key tree ends
\* with its line's newline and names no object
C15_TreeOfCommitNotFound ==
    /\ FindsTreeOfCommit
    /\ fo_last.res.tag = "Err" /\ fo_last.res.val = "Object file does not exist"

\* without following, and where the kinds agree, find is as stated
FollowFalse ==
    (FoFound /\ ~fo_last.options.val.should_follow)
    => LET want == Followed(objects, fo_last.name, fo_last.options.val)
       IN  IF want.some THEN fo_last.res.tag = "Ok" /\ fo_last.res.val = fo_last.name
           ELSE fo_last.res.tag = "Err"

\* no find that has to follow a key succeeds
FollowNeverArrives ==
    (FoFound /\ fo_last.res.tag = "Ok") => fo_last.res.val = fo_last.name

\* a commit without the key tree makes the following find panic
FollowPanicsWithoutTree ==
    /\ FoFound /\ fo_last.res.tag = "Panic"
    /\ fo_last.name \in StoredOfType(objects, "commit")
    /\ ~HasKey(ObjRead(objects, fo_last.name).val.body, KeyTree)

\* the last operation was find or read of a string that names nothing stored:
\* find of an all-hex name no stored digest starts with, read of a string that
\* is no stored digest
AbsentInput ==
    \/ /\ ob_last.op = "find"
       /\ \A i \in 1..Len(ob_last.name) : IsHexDigit(ob_last.name[i])
       /\ DigestsStarting(ob_last.name) = {}
    \/ /\ ob_last.op = "read"
       /\ ob_last.name \notin DOMAIN objects

\* C16: find and read of a name or digest that names nothing stored return an
\* error value, whatever the string, names shorter than two characters
\* included; they do not panic.
C16_NoPanicOnAbsent == AbsentInput => ob_last.res.tag = "Err"

\* find of the one-character name "6" panics at name[..2]
C16_FindPanicsOnShortName ==
    /\ ob_last.op = "find" /\ ob_last.name = <<54>>
    /\ ob_last.res.tag = "Panic"

\* read of "6", and of a string with a character across byte 2, panics at sha[..2]
ReadPanicsOnShortDigest ==
    /\ ob_last.op = "read" /\ ob_last.name = <<97, 195, 169>>
    /\ ob_last.res.tag = "Panic"

\* from two characters on, an absent input is an error value
AbsentFromTwoIsError ==
    (AbsentInput /\ Len(ob_last.name) >= 2 /\ IsCharBoundary(ob_last.name, 2))
    => ob_last.res.tag = "Err"

\* Ref::resolve of a path that is no file returns an error value
MissingRefIsError ==
    (rf_pc = "done" /\ rf_query \notin DOMAIN refs)
    => (rf_result.tag = "Err" /\ rf_depth = 1)

\* ---------------------------------------------------------------------------
\* The other operations of the engine on the repository: reference create and
\* list (refs.rs), staging (index.rs add)
\* ---------------------------------------------------------------------------

\* "description", "config", ".gitrs", "w" as bytes
SegDescription == <<100, 101, 115, 99, 114, 105, 112, 116, 105, 111, 110>>
SegConfig == <<99, 111, 110, 102, 105, 103>>

\* what Repository::init writes to HEAD: "refs/head/master"
HeadContent == <<114, 101, 102, 115, 47, 104, 101, 97, 100, 47, 109, 97, 115, 116, 101, 114>>

\* what Repository::init writes to description
DescriptionContent == <<85, 110, 97, 109, 101, 100>>

\* REQUIRED_FILES: the files Repository::init writes, name -> content as given
RequiredFiles ==
    [f \in {<<SegDescription>>, <<SegHEAD>>, <<SegConfig>>} |->
        IF f = <<SegDescription>> THEN DescriptionContent
        ELSE IF f = <<SegHEAD>> THEN HeadContent
        ELSE <<>>]

\* Repository::init on the files of the git directory: an error when it is
\* not empty, else the required directories and files
RepositoryInit(files) ==
    IF files # <<>> THEN [res |-> Err("Expected empty directory at"), files |-> files]
    ELSE [res |-> Ok(<<>>), files |-> RequiredFiles]

\* a slip: create_at opening the file to append instead of replacing it
RefCreateAtAppending(files, hash, paths) ==
    LET path == ComputeRepoPath(paths)
    IN  [res |-> Ok(<<>>),
         files |-> [p \in DOMAIN files \cup {path} |->
                       IF p # path THEN files[p]
                       ELSE IF path \in DOMAIN files THEN files[p] \o hash \o <<NL>>
                       ELSE hash \o <<NL>>]]

\* Ref::create_at: the parent directories are made (a panic where a file is
\* in the way), the file at paths is made or emptied (an error where a
\* directory is) and holds the hash and a newline
RefCreateAt(files, hash, paths) ==
    LET path == ComputeRepoPath(paths)
    IN  IF paths = <<>>
        THEN [res |-> Panic("attempt to subtract with overflow"), files |-> files]
        ELSE IF \E n \in 1..(Len(path) - 1) : IsFile(files, SubSeq(path, 1, n))
        THEN [res |-> Panic("Expected a directory at"), files |-> files]
        ELSE IF IsDir(files, path) \/ path = <<>>
        THEN [res |-> Err("Couldn't create file at"), files |-> files]
        ELSE [res |-> Ok(<<>>),
              files |-> [p \in DOMAIN files \cup {path} |->
                            IF p = path THEN hash \o <<NL>> ELSE files[p]]]

\* Tag::create: a lightweight tag is the reference refs/tags/<name>; for an
\* annotated tag a key-value list is built and dropped
TagCreate(files, name, hash, tag_type) ==
    IF tag_type = "Lightweight" THEN RefCreateAt(files, hash, <<SegRefs, SegTags, name>>)
    ELSE [res |-> Ok(<<>>), files |-> files]

\* the file names of a set, sorted: entries.sort_by_key(|entry| entry.file_name())
RECURSIVE SortNames(_)
SortNames(S) ==
    IF S = {} THEN <<>>
    ELSE LET first == CHOOSE x \in S : \A y \in S \ {x} : LexLess(x, y)
         IN  <<first>> \o SortNames(S \ {first})

\* the git directory, worktree.join(".gitrs") of the worktree "/", as the
\* components Path::components gives: the root and ".gitrs"
SegRoot == <<SLASH>>
SegGitrs == <<46, 103, 105, 116, 114, 115>>
GitDir == <<SegRoot, SegGitrs>>

\* PathBuf::push: an absolute segment replaces the path, another is appended
PathPush(acc, seg) ==
    IF seg = <<>> THEN acc
    ELSE IF seg[1] = SLASH
    THEN <<SegRoot>> \o SelectSeq(SplitOn(From(seg, 2), SLASH), LAMBDA c : c # <<>>)
    ELSE Append(acc, seg)

\* Repository::compute_repo_path as a path of the file system: the segments
\* pushed one by one onto the git directory
RECURSIVE ComputeFsPathFrom(_, _, _)
ComputeFsPathFrom(acc, paths, i) ==
    IF i > Len(paths) THEN acc
    ELSE ComputeFsPathFrom(PathPush(acc, paths[i]), paths, i + 1)
ComputeFsPath(paths) == ComputeFsPathFrom(GitDir, paths, 1)

\* a path of the file system inside the git directory, and its part below it
InGitDir(path) ==
    Len(path) >= Len(GitDir) /\ SubSeq(path, 1, Len(GitDir)) = GitDir
BelowGitDir(path) == SubSeq(path, Len(GitDir) + 1, Len(path))

\* Ref::resolve called with the components of a file system path, as
\* list_at_dir calls it: the first component, the root, replaces the git
\* directory in compute_repo_path; nothing outside the git directory is a file
RefResolveParts(files, parts) ==
    CHOOSE resolved \in
        {IF ~InGitDir(path) THEN Err("Not a file")
         ELSE RefResolve(files, BelowGitDir(path)) : path \in {ComputeFsPath(parts)}} : TRUE

\* the names fs::read_dir gives for a directory of the reference files
DirEntries(files, base) ==
    {f[Len(base) + 1] : f \in {g \in DOMAIN files :
                                Len(g) > Len(base) /\ SubSeq(g, 1, Len(base)) = base}}

\* Ref::list_at_dir: base_parts are the components of the file system path of
\* the directory; its entries are taken in file name order, a directory
\* replaced where it stands by its own listing, a file by the slash-joined
\* base_parts and file name and the digest resolve gives for those parts
RECURSIVE RefListFold(_, _, _, _, _)
RECURSIVE RefListEntry(_, _, _, _, _, _)
RefListFold(files, base_parts, names, i, acc) ==
    IF i > Len(names) THEN Ok(acc)
    ELSE CHOOSE out \in
            {RefListEntry(files, base_parts, names, i, acc, full_path_parts) :
                full_path_parts \in {Append(base_parts, names[i])}} : TRUE
RefListEntry(files, base_parts, names, i, acc, full_path_parts) ==
    IF IsFile(files, BelowGitDir(full_path_parts))
    THEN LET resolved == RefResolveParts(files, full_path_parts)
         IN  IF resolved.tag # "Ok" THEN resolved
             ELSE RefListFold(files, base_parts, names, i + 1,
                      Append(acc, <<JoinWith(full_path_parts, SLASH), resolved.val>>))
    ELSE LET inner == RefListFold(files, full_path_parts,
                          SortNames(DirEntries(files, BelowGitDir(full_path_parts))),
                          1, <<>>)
         IN  IF inner.tag # "Ok" THEN inner
             ELSE RefListFold(files, base_parts, names, i + 1, acc \o inner.val)

\* Ref::list_at(repository, path), path a directory of the file system
RefListAt(files, path) ==
    IF ~InGitDir(path) \/ ~IsDir(files, BelowGitDir(path)) THEN Err("Failed to read dir")
    ELSE RefListFold(files, path, SortNames(DirEntries(files, BelowGitDir(path))),
                     1, <<>>)

\* the files of the worktree: path -> content and modification time
WorktreeRoot == <<SLASH>>
Worktree ==
    [p \in {<<SLASH, 97>>} |-> [data |-> <<104, 105>>, mtime |-> TicksPerSec + 1]]

\* Repository::contains: the path lies below the worktree
RepositoryContains(path) == StartsWith(path, WorktreeRoot)

\* the body of the for loop of Index::add for one path over the worktree
\* work: the error returned, or the blob written and the entry pushed
IndexAddPath(work, store, entries, path) ==
    IF ~RepositoryContains(path)
    THEN [res |-> Err("Path outside worktree"), store |-> store, entries |-> entries]
    ELSE IF path \notin DOMAIN work
    THEN [res |-> Err("No such file or directory"), store |-> store, entries |-> entries]
    ELSE LET f == work[path]
             w == ObjWrite(store, ObjDeserialize(f.data, "blob").val)
         IN  [res |-> Ok(<<>>), store |-> w.store,
              entries |-> Append(entries, [mtime |-> f.mtime, sha |-> w.sha,
                                           size_in_bytes |-> Len(f.data), path |-> path])]

\* Index::add from path i on: the blob of each file is written and an entry
\* pushed; the index file is written after the last path
RECURSIVE IndexAddFrom(_, _, _, _, _)
IndexAddFrom(store, entries, file, paths, i) ==
    IF i > Len(paths)
    THEN [res |-> IndexWrite(entries).res, store |-> store, entries |-> entries,
          file |-> [exists |-> TRUE, data |-> IndexWrite(entries).data]]
    ELSE CHOOSE out \in
            {IF step.res.tag # "Ok"
             THEN [res |-> step.res, store |-> store, entries |-> entries, file |-> file]
             ELSE IndexAddFrom(step.store, step.entries, file, paths, i + 1) :
                step \in {IndexAddPath(Worktree, store, entries, paths[i])}} : TRUE

IndexAdd(store, entries, file, paths) == IndexAddFrom(store, entries, file, paths, 1)

\* ---------------------------------------------------------------------------
\* Engine specification: object write, read and find, reference create and
\* list, staging and checkout, in any order on one repository.
\* ---------------------------------------------------------------------------

EngineWrites ==
    {[data |-> <<>>, type |-> "blob"], [data |-> BlobHi, type |-> "blob"],
     [data |-> <<>>, type |-> "tree"], [data |-> BlobHi, type |-> "tree"]}

TagV == <<SegRefs, SegTags, <<118>>>>
EngineFindNames(store) == DOMAIN store \cup {<<118>>, <<54>>}
EngineAddPaths == {<<<<SLASH, 97>>>>, <<<<SLASH, 97>>, <<SLASH, 98>>>>, <<<<111>>>>}
EngineTrees(store) ==
    {<<>>} \cup {<<[file_mode |-> ModeFile, path |-> NameHelloTxt, hash |-> d]>> :
                    d \in DOMAIN store}

\* the record of an operation: its name, what it was asked for, its result
EngineOp(op, name, r) ==
    [op |-> op, type |-> "", data |-> <<>>, name |-> name, repeat |-> FALSE,
     res |-> OpResult(r)]

EnStart == ObIdle /\ RfIdle /\ IxIdle /\ CoIdle

EnWrite(w) ==
    /\ LET out == ObjDeserializeAndWrite(objects, w.data, w.type)
       IN  /\ objects' = out.store
           /\ ob_last' = [EngineOp("write", <<>>, out.res) EXCEPT
                             !.type = w.type, !.data = w.data]
    /\ ob_before' = objects
    /\ UNCHANGED <<ob_written, kvvars, trvars, rfvars, igvars, ixvars, covars, fovars, stvars, rpvars>>

EnRead(sha) ==
    /\ ob_last' = EngineOp("read", sha, ObjRead(objects, sha))
    /\ ob_before' = objects
    /\ UNCHANGED <<objects, ob_written, kvvars, trvars, rfvars, igvars, ixvars, covars, fovars, stvars, rpvars>>

EnFind(name) ==
    /\ \E listing \in Orderings(IF Len(name) >= 2 THEN HexCandidates(objects, name) ELSE {}) :
          ob_last' = [EngineOp("find", name, Ok(<<>>)) EXCEPT
                         !.res = ObjFind(objects, refs, name, listing)]
    /\ ob_before' = objects
    /\ UNCHANGED <<objects, ob_written, kvvars, trvars, rfvars, igvars, ixvars, covars, fovars, stvars, rpvars>>

\* Tag::create of a lightweight tag: Ref::create_at(hash, ["refs", "tags", name])
EnRefCreate(hash, paths) ==
    /\ LET out == RefCreateAt(refs, hash, paths)
       IN  /\ refs' = out.files
           /\ ob_last' = EngineOp("ref_create", JoinWith(paths, SLASH), out.res)
    /\ ob_before' = objects
    /\ UNCHANGED <<objects, ob_written, rf_abs, rf_pc, rf_query, rf_path, rf_depth,
                   rf_result, kvvars, trvars, igvars, ixvars, covars, fovars, stvars, rpvars>>

EnRefList ==
    /\ \E path \in {Append(GitDir, SegRefs)} :
          ob_last' = EngineOp("ref_list", SegRefs, RefListAt(refs, path))
    /\ ob_before' = objects
    /\ UNCHANGED <<objects, ob_written, kvvars, trvars, rfvars, igvars, ixvars, covars, fovars, stvars, rpvars>>

\* index.add(paths) on the Index value held in memory
EnIndexAdd(paths) ==
    /\ Len(ix_mem) + Len(paths) <= MaxEntries
    /\ LET out == IndexAdd(objects, ix_mem, ix_file, paths)
       IN  /\ objects' = out.store
           /\ ix_mem' = out.entries
           /\ ix_file' = out.file
           /\ ob_last' = EngineOp("index_add", JoinWith(paths, NL), out.res)
    /\ ob_before' = objects
    /\ UNCHANGED <<ob_written, ix_last, kvvars, trvars, rfvars, igvars, covars, fovars, stvars, rpvars>>

\* checkout of a Tree value into the destination while it is empty
EnCheckout(tree) ==
    /\ co_dest = <<>>
    /\ LET out == TreeCheckout(objects, tree, co_dest)
       IN  /\ co_dest' = out.fs
           /\ co_tree' = tree
           /\ co_last' = [op |-> "checkout", res |-> out.res]
           /\ ob_last' = EngineOp("checkout", <<>>, out.res)
    /\ ob_before' = objects
    /\ UNCHANGED <<objects, ob_written, kvvars, trvars, rfvars, igvars, ixvars, fovars, stvars, rpvars>>

EnNext ==
    \/ \E w \in EngineWrites : EnWrite(w)
    \/ \E sha \in ReadNames(objects) : EnRead(sha)
    \/ \E name \in EngineFindNames(objects) : EnFind(name)
    \/ \E hash \in {DigestA, DigestB} : EnRefCreate(hash, TagV)
    \/ EnRefList
    \/ \E paths \in EngineAddPaths : EnIndexAdd(paths)
    \/ \E tree \in EngineTrees(objects) : EnCheckout(tree)

EnInit == EnStart /\ KvIdle /\ TrIdle /\ IgIdle /\ FoIdle /\ StIdle /\ RpIdle

SpecEngine == EnInit /\ [][EnNext]_vars

\* C17: no operation of the engine takes an object away or changes what is
\* stored under a digest: every object stored before the last operation is
\* stored after it with the same file, and read returns the same for it.
C17_ObjectsImmutable ==
    \A d \in DOMAIN ob_before :
        /\ d \in DOMAIN objects
        /\ objects[d] = ob_before[d]
        /\ ObjRead(objects, d) = ObjRead(ob_before, d)

\* staging has written the blob of a file again that was stored before, with
\* a tag created and a checkout done
C17_Witness ==
    /\ ob_last.op = "index_add" /\ ob_last.res.tag = "Ok"
    /\ DigestOf(BlobHi, "blob") \in DOMAIN ob_before
    /\ Cardinality(DOMAIN objects) >= 3
    /\ TagV \in DOMAIN refs /\ co_dest # <<>> /\ ix_file.exists

\* a digest as write returns it: 40 lower-case hexadecimal characters, the
\* first two the directory and the other 38 the file below objects/
IsDigestName(d) ==
    /\ Len(d) = 2 * LeafHashLen
    /\ \A i \in 1..Len(d) : IsHexDigit(d[i]) /\ d[i] = LowerByte(d[i])

\* C18: a write that returns a digest creates or rewrites the one object file
\* named by that digest and leaves every other object, every reference file
\* and the index file as they were; a read, successful or failing, leaves
\* objects, reference files and index file as they were.
C18_WriteReadFrame ==
    [][/\ (ob_last'.op = "write" /\ ob_last'.res.tag = "Ok") =>
            LET d == ob_last'.res.val
            IN  /\ IsDigestName(d)
                /\ DOMAIN objects' = DOMAIN objects \cup {d}
                /\ \A e \in DOMAIN objects \ {d} : objects'[e] = objects[e]
                /\ refs' = refs /\ ix_file' = ix_file
       /\ ob_last'.op = "read" =>
            /\ objects' = objects /\ refs' = refs /\ ix_file' = ix_file]_vars

\* a write has added one object to a store that held others, with a reference
\* file and the index file there
C18_Witness ==
    /\ ob_last.op = "write" /\ ob_last.res.tag = "Ok"
    /\ ob_before # <<>> /\ ob_last.res.val \notin DOMAIN ob_before
    /\ DOMAIN objects = DOMAIN ob_before \cup {ob_last.res.val}
    /\ TagV \in DOMAIN refs /\ ix_file.exists

\* a failing read after them
ReadFailedAmongFiles ==
    /\ ob_last.op = "read" /\ ob_last.res.tag # "Ok"
    /\ objects # <<>> /\ TagV \in DOMAIN refs /\ ix_file.exists

\* the bytes of an object file are '<type> <decimal length>\0<payload>' with
\* the declared length the length of the payload
WellFramed(data) ==
    LET sp == Position(data, SP, 1)
        nul == Position(data, NUL, 1)
        digits == SubSeq(data, sp + 1, nul - 1)
    IN  /\ sp > 1 /\ nul > sp + 1
        /\ TypeFromName(SubSeq(data, 1, sp - 1)).tag = "Ok"
        /\ \A i \in 1..Len(digits) : IsDigit(digits[i])
        /\ digits = FormatUsize(Len(data) - nul)

\* C19: every object file is compressed, decompresses to a type, the decimal
\* length of the payload, a NUL and the payload, and is named by the digest
\* of those bytes; two writes that differ in kind or payload never share a
\* path.
C19_ContentAddressed ==
    /\ \A d \in DOMAIN objects :
          /\ objects[d].zlib
          /\ WellFramed(objects[d].data)
          /\ Hash(objects[d].data) = d
          /\ IsDigestName(d)
    /\ \A k1, k2 \in DOMAIN ob_written :
          ob_written[k1] = ob_written[k2] =>
              ObjPayload(ObjDeserialize(k1[2], k1[1]).val)
                  = ObjPayload(ObjDeserialize(k2[2], k2[1]).val)

\* two objects are stored, one of them a tree whose payload is longer than a
\* digest
C19_Witness ==
    /\ Cardinality(DOMAIN objects) = 2
    /\ Cardinality(DOMAIN ob_written) = 2
    /\ \E d \in DOMAIN objects :
          /\ Len(objects[d].data) > LeafHashLen
          /\ StartsWith(objects[d].data, TypeName("tree"))

\* ---------------------------------------------------------------------------
\* Symbolic names: the name main in any of refs/tags, refs/heads and
\* refs/remotes, as a digest or as a reference to refs/heads/dev, which holds
\* a digest or is absent; find of main and of dev.
\* ---------------------------------------------------------------------------

NameFiles == {Append(RefNamespaces[i], SegMain) : i \in 1..Len(RefNamespaces)}

NameHoldings ==
    {[kind |-> "digest", d |-> DigestA, nl |-> TRUE, target |-> <<>>],
     [kind |-> "digest", d |-> DigestB, nl |-> TRUE, target |-> <<>>],
     [kind |-> "sym", d |-> <<>>, nl |-> TRUE, target |-> RefDevBranch]}

NameLayouts ==
    UNION {[S -> NameHoldings] : S \in SUBSET NameFiles}

\* a layout with refs/heads/dev holding DigestA added, or without
WithDev(layout, present) ==
    IF ~present THEN layout
    ELSE [n \in DOMAIN layout \cup {RefDevBranch} |->
             IF n = RefDevBranch
             THEN [kind |-> "digest", d |-> DigestA, nl |-> TRUE, target |-> <<>>]
             ELSE layout[n]]

NmStart ==
    /\ \E layout \in NameLayouts, present \in BOOLEAN : rf_abs = WithDev(layout, present)
    /\ refs = [n \in DOMAIN rf_abs |-> RefFileBytes(rf_abs[n])]
    /\ rf_pc = "idle" /\ rf_query = <<>> /\ rf_path = <<>>
    /\ rf_depth = 0 /\ rf_result = Ok(<<>>)
    /\ ObIdle

NmNext == \E name \in {SegMain, SegDev} : ObFind(name)

NmInit == NmStart /\ KvIdle /\ TrIdle /\ IgIdle /\ IxIdle /\ CoIdle /\ FoIdle /\ StIdle /\ RpIdle

SpecNames == NmInit /\ [][NmNext]_vars

\* the digest the name resolves to in namespace i, <<>> when it does not: the
\* digest of its file there, or of the file its file refers to
DigestIn(i, name) ==
    LET n == Append(RefNamespaces[i], name)
    IN  IF n \notin DOMAIN rf_abs THEN <<>>
        ELSE IF rf_abs[n].kind = "digest" THEN rf_abs[n].d
        ELSE IF rf_abs[n].target \in DOMAIN rf_abs THEN rf_abs[rf_abs[n].target].d
        ELSE <<>>

ResolvingNamespaces(name) == {i \in 1..Len(RefNamespaces) : DigestIn(i, name) # <<>>}

FoundSymbolic == ob_last.op = "find" /\ ob_last.name \in {SegMain, SegDev}

\* C20: find of a symbolic name is the digest of the one namespace the name
\* resolves in, an error when it resolves in none, and the Ambiguous error
\* with one candidate per namespace when it resolves in two or more, the same
\* digest twice included.
C20_NamespacesCollected ==
    FoundSymbolic =>
        LET N == ResolvingNamespaces(ob_last.name)
            r == ob_last.res
        IN  /\ Cardinality(N) = 1 =>
                  r.tag = "Ok" /\ \A i \in N : r.val = DigestIn(i, ob_last.name)
            /\ Cardinality(N) = 0 =>
                  r.tag = "Err" /\ r.val = "Couldn't find object with name"
            /\ Cardinality(N) >= 2 =>
                  /\ r.tag = "Err" /\ r.val = "Ambiguous reference"
                  /\ Len(r.candidates) = Cardinality(N)
                  /\ \A i \in N : \E k \in 1..Len(r.candidates) :
                        r.candidates[k] = DigestIn(i, ob_last.name)

\* main is a tag and a remote branch, not a local branch, both the same
\* digest, and find says Ambiguous with the digest twice
C20_Witness ==
    /\ FoundSymbolic /\ ob_last.name = SegMain
    /\ ResolvingNamespaces(SegMain) = {1, 3}
    /\ DigestIn(1, SegMain) = DigestIn(3, SegMain)
    /\ ob_last.res.tag = "Err" /\ ob_last.res.val = "Ambiguous reference"
    /\ ob_last.res.candidates = <<DigestIn(1, SegMain), DigestIn(3, SegMain)>>

\* main resolves in refs/heads alone, through a reference to refs/heads/dev
OneNamespaceThroughDev ==
    /\ FoundSymbolic /\ ob_last.name = SegMain
    /\ ResolvingNamespaces(SegMain) = {2}
    /\ rf_abs[RefMainBranch].kind = "sym"
    /\ ob_last.res.tag = "Ok" /\ ob_last.res.val = DigestA

(***************************************************************************)
(* Staging by processes (index.rs add, write; repository.rs upsert_file)   *)
(*                                                                         *)
(* A process holds an Index value and runs Index::read and Index::add; the *)
(* index file and the object store are shared.  Every call that reaches    *)
(* the file system is a step of its own: File::create empties a file, each *)
(* write_all puts bytes at the offset of the writer's file handle.         *)
(***************************************************************************)
MaxStageEntries == 3   \* entries an Index value grows to
MaxAddCalls == 2       \* calls of Index::add by a process that stages alone

PathA == <<SLASH, 97>>
PathB == <<SLASH, 98>>
PathOutside == <<111>>
BlobYo == <<121, 111>>

\* a file of the worktree: its content; it is modified at a time that
\* depends on the content
WorkFile(data) == [data |-> data, mtime |-> TicksPerSec * data[1] + 1]

\* the path lists add is called with: "/a", "/b", both, a path outside the
\* worktree and "/a"
StagePaths == {<<PathA>>, <<PathB>>, <<PathA, PathB>>, <<PathOutside, PathA>>}

\* a file File::create has made or emptied and nothing has written to
EmptyFile == [zlib |-> FALSE, data |-> <<>>]

\* write_all of bytes through a handle at offset off: the file is extended
\* with zeros up to the offset when it is shorter
WriteAt(data, off, bytes) ==
    LET padded == IF Len(data) < off
                  THEN data \o [i \in 1..(off - Len(data)) |-> 0] ELSE data
    IN  SubSeq(padded, 1, off) \o bytes \o From(padded, off + Len(bytes) + 1)

\* a process before its first call
StFresh(left) ==
    [pc |-> "start", mem |-> <<>>, paths |-> <<>>, i |-> 0, sha |-> <<>>,
     payload |-> <<>>, off |-> 0, k |-> 0, res |-> Ok(<<>>), left |-> left,
     before |-> [store |-> <<>>, file |-> [exists |-> FALSE, data |-> <<>>],
                 mem |-> <<>>],
     prev |-> [paths |-> <<>>, res |-> Ok(<<>>)]]

StFrame == UNCHANGED <<kvvars, trvars, rfvars, igvars, covars, fovars, rpvars,
                       ob_last, ob_before, ob_written, ix_mem, ix_last>>

\* Index::read(repository) by process p
StRead(p) ==
    /\ st_proc[p].pc = "start"
    /\ LET r == IndexRead(ix_file)
       IN  st_proc' = [st_proc EXCEPT ![p] =
               IF r.tag = "Some"
               THEN [@ EXCEPT !.pc = "ready", !.mem = r.val.entries]
               ELSE [@ EXCEPT !.pc = "failed", !.res = [tag |-> r.tag, val |-> <<>>]]]
    /\ UNCHANGED <<st_work, objects, ix_file>>
    /\ StFrame

\* index.add(repository, paths) is called by process p
StAdd(p, paths) ==
    /\ st_proc[p].pc = "ready" /\ st_proc[p].left > 0
    /\ Len(st_proc[p].mem) + Len(paths) <= MaxStageEntries
    /\ st_proc' = [st_proc EXCEPT ![p] =
           [@ EXCEPT !.pc = "path", !.paths = paths, !.i = 1, !.left = @ - 1,
                     !.before = [store |-> objects, file |-> ix_file,
                                 mem |-> st_proc[p].mem],
                     !.prev = [paths |-> st_proc[p].paths, res |-> st_proc[p].res]]]
    /\ UNCHANGED <<st_work, objects, ix_file>>
    /\ StFrame

\* the loop body as it would be if a failing path undid the call: the
\* entries pushed for the paths before it are dropped
StPathOpenRollingBack(p) ==
    /\ st_proc[p].pc = "path" /\ st_proc[p].i <= Len(st_proc[p].paths)
    /\ LET path == st_proc[p].paths[st_proc[p].i]
           step == IndexAddPath(st_work, <<>>, <<>>, path)
       IN  IF step.res.tag # "Ok"
           THEN /\ st_proc' = [st_proc EXCEPT ![p] =
                       [@ EXCEPT !.pc = "ready", !.res = step.res,
                                 !.mem = st_proc[p].before.mem]]
                /\ UNCHANGED objects
           ELSE \E sha \in DOMAIN step.store :
                  /\ st_proc' = [st_proc EXCEPT ![p] =
                         [@ EXCEPT !.pc = "blob", !.sha = sha,
                                   !.payload = step.store[sha].data]]
                  /\ objects' = [d \in DOMAIN objects \cup {sha} |->
                                    IF d = sha THEN EmptyFile ELSE objects[d]]
    /\ UNCHANGED <<st_work, ix_file>>
    /\ StFrame

\* the loop body up to File::create of upsert_file: the path is checked and
\* read, the blob serialized and hashed, its object file made or emptied
StPathOpen(p) ==
    /\ st_proc[p].pc = "path" /\ st_proc[p].i <= Len(st_proc[p].paths)
    /\ LET path == st_proc[p].paths[st_proc[p].i]
           step == IndexAddPath(st_work, <<>>, <<>>, path)
       IN  IF step.res.tag # "Ok"
           THEN /\ st_proc' = [st_proc EXCEPT ![p] =
                       [@ EXCEPT !.pc = "ready", !.res = step.res]]
                /\ UNCHANGED objects
           ELSE \E sha \in DOMAIN step.store :
                  /\ st_proc' = [st_proc EXCEPT ![p] =
                         [@ EXCEPT !.pc = "blob", !.sha = sha,
                                   !.payload = step.store[sha].data]]
                  /\ objects' = [d \in DOMAIN objects \cup {sha} |->
                                    IF d = sha THEN EmptyFile ELSE objects[d]]
    /\ UNCHANGED <<st_work, ix_file>>
    /\ StFrame

\* the rest of the loop body: the encoder writes the object file, the
\* metadata of the path is read and the entry pushed
StPathPush(p) ==
    /\ st_proc[p].pc = "blob"
    /\ LET path == st_proc[p].paths[st_proc[p].i]
       IN  /\ objects' = UpsertFile(objects, st_proc[p].sha, st_proc[p].payload)
           /\ st_proc' = [st_proc EXCEPT ![p] =
                  [@ EXCEPT !.pc = "path", !.i = @ + 1,
                            !.mem = Append(@, [mtime |-> st_work[path].mtime,
                                               sha |-> st_proc[p].sha,
                                               size_in_bytes |-> Len(st_work[path].data),
                                               path |-> path])]]
    /\ UNCHANGED <<st_work, ix_file>>
    /\ StFrame

\* Index::write begins: File::create makes or empties the index file
StIndexCreate(p) ==
    /\ st_proc[p].pc = "path" /\ st_proc[p].i > Len(st_proc[p].paths)
    /\ ix_file' = [exists |-> TRUE, data |-> <<>>]
    /\ st_proc' = [st_proc EXCEPT ![p] = [@ EXCEPT !.pc = "signature", !.off = 0]]
    /\ UNCHANGED <<st_work, objects>>
    /\ StFrame

\* one write_all of the header: the signature, the version, the count
StHeaderBytes(pc, mem) ==
    IF pc = "signature" THEN INDEX_SIGNATURE
    ELSE IF pc = "version" THEN ToBeBytes(INDEX_VERSION, 4)
    ELSE ToBeBytes(Len(mem), 4)

\* where the call stands after a write_all: at the next piece of the header,
\* at entry k, or returned after the flush
StAfterWrite(proc, bytes, pc, k) ==
    IF pc = "entry" /\ k > Len(proc.mem)
    THEN [proc EXCEPT !.pc = "ready", !.off = @ + Len(bytes), !.k = 0, !.res = Ok(<<>>)]
    ELSE [proc EXCEPT !.pc = pc, !.off = @ + Len(bytes), !.k = k]

StIndexHeader(p) ==
    /\ st_proc[p].pc \in {"signature", "version", "count"}
    /\ LET bytes == StHeaderBytes(st_proc[p].pc, st_proc[p].mem)
       IN  /\ ix_file' = [exists |-> TRUE,
                          data |-> WriteAt(ix_file.data, st_proc[p].off, bytes)]
           /\ st_proc' = [st_proc EXCEPT ![p] =
                  IF @.pc = "signature" THEN StAfterWrite(@, bytes, "version", 0)
                  ELSE IF @.pc = "version" THEN StAfterWrite(@, bytes, "count", 0)
                  ELSE StAfterWrite(@, bytes, "entry", 1)]
    /\ UNCHANGED <<st_work, objects>>
    /\ StFrame

\* write_all of the bytes of entry k
StIndexEntry(p) ==
    /\ st_proc[p].pc = "entry"
    /\ LET bytes == IndexEntryToBytes(st_proc[p].mem[st_proc[p].k])
       IN  IF bytes.tag # "Ok"
           THEN /\ st_proc' = [st_proc EXCEPT ![p] = [@ EXCEPT !.pc = "failed", !.res = bytes]]
                /\ UNCHANGED ix_file
           ELSE /\ ix_file' = [exists |-> TRUE,
                               data |-> WriteAt(ix_file.data, st_proc[p].off, bytes.val)]
                /\ st_proc' = [st_proc EXCEPT ![p] =
                       StAfterWrite(@, bytes.val, "entry", @.k + 1)]
    /\ UNCHANGED <<st_work, objects>>
    /\ StFrame

\* a file of the worktree is written by its user
StTouch(path, data) ==
    /\ st_work' = [q \in DOMAIN st_work \cup {path} |->
                      IF q = path THEN WorkFile(data) ELSE st_work[q]]
    /\ st_work' # st_work
    /\ UNCHANGED <<st_proc, objects, ix_file>>
    /\ StFrame

StStep(p) ==
    \/ StRead(p)
    \/ \E paths \in StagePaths : StAdd(p, paths)
    \/ StPathOpen(p)
    \/ StPathPush(p)
    \/ StIndexCreate(p)
    \/ StIndexHeader(p)
    \/ StIndexEntry(p)

\* one process stages, the user edits the worktree between and during calls
StStart ==
    /\ st_work = [q \in {PathA} |-> WorkFile(BlobHi)]
    /\ st_proc = [p \in {1} |-> StFresh(MaxAddCalls)]
    /\ ObIdle /\ IxIdle

StNext ==
    \/ \E p \in DOMAIN st_proc : StStep(p)
    \/ \E path \in {PathA, PathB}, data \in {BlobHi, BlobYo} : StTouch(path, data)

StInit == StStart /\ KvIdle /\ TrIdle /\ RfIdle /\ IgIdle /\ CoIdle /\ FoIdle /\ RpIdle

SpecStage == StInit /\ [][StNext]_vars

\* the paths of a list of entries, in order
PathsOf(entries) == [k \in 1..Len(entries) |-> entries[k].path]

\* the call of add by p has returned
StReturned(p) == st_proc[p].pc = "ready" /\ st_proc[p].paths # <<>>

\* C21: after any sequence of Index::add calls the index holds at most one
\* entry per path: staging a path that is already in the index replaces its
\* entry instead of adding a second one.
C21_OneEntryPerPath ==
    \A p \in DOMAIN st_proc :
        StReturned(p) =>
            \A i, j \in 1..Len(st_proc[p].mem) :
                i # j => st_proc[p].mem[i].path # st_proc[p].mem[j].path

\* "/a" staged, edited and staged again: the index file holds two entries
\* for "/a", the old digest first
C21_StagedTwice ==
    /\ StReturned(1) /\ st_proc[1].res.tag = "Ok"
    /\ IndexRead(ix_file).tag = "Some"
    /\ PathsOf(IndexRead(ix_file).val.entries) = <<PathA, PathA>>
    /\ IndexRead(ix_file).val.entries[1].sha # IndexRead(ix_file).val.entries[2].sha

\* what add does instead: a call that returns Ok has pushed one entry per
\* path of the call, in order, behind the entries held before
AddAppends ==
    \A p \in DOMAIN st_proc :
        (StReturned(p) /\ st_proc[p].res.tag = "Ok") =>
            /\ PathsOf(st_proc[p].mem) = PathsOf(st_proc[p].before.mem) \o st_proc[p].paths
            /\ SubSeq(st_proc[p].mem, 1, Len(st_proc[p].before.mem)) = st_proc[p].before.mem

(***************************************************************************)
(* The references of a repository: Repository::init, then Ref::create_at,  *)
(* Tag::create and Ref::resolve in any order                               *)
(***************************************************************************)
SegV == <<118>>
SegW == <<119>>

\* the paths references are created at and resolved: HEAD, a branch, the
\* tag v, and refs/tags/v/w, whose parent is made by the create
RepoRefPaths ==
    {<<SegHEAD>>, <<SegRefs, SegHeads, SegMain>>, <<SegRefs, SegTags, SegV>>,
     <<SegRefs, SegTags, SegV, SegW>>}

RepoOp(op, hash, paths, res, had) ==
    [op |-> op, hash |-> hash, paths |-> paths, res |-> res, had |-> had]

\* the bytes of the file at paths before an operation, None when it is no file
HadAt(files, paths) ==
    IF ComputeRepoPath(paths) \in DOMAIN files THEN Some(files[ComputeRepoPath(paths)])
    ELSE None

RpFrame == UNCHANGED <<rf_abs, rf_pc, rf_query, rf_path, rf_depth, rf_result,
                       kvvars, trvars, obvars, igvars, ixvars, covars, fovars, stvars>>

RpStart == rp_last = RepoOp("none", <<>>, <<>>, Ok(<<>>), None) /\ RfIdle

\* Repository::init(worktree)
RpInit ==
    /\ refs' = RepositoryInit(refs).files
    /\ rp_last' = RepoOp("init", <<>>, <<>>, RepositoryInit(refs).res, None)
    /\ RpFrame

\* Ref::create_at(repository, hash, paths)
RpCreate(hash, paths) ==
    /\ rp_last.op # "none"
    /\ refs' = RefCreateAt(refs, hash, paths).files
    /\ rp_last' = RepoOp("create", hash, paths, RefCreateAt(refs, hash, paths).res,
                         HadAt(refs, paths))
    /\ RpFrame

\* Tag::create(repository, name, hash, tag_type)
RpTag(name, hash, tag_type) ==
    /\ rp_last.op # "none"
    /\ refs' = TagCreate(refs, name, hash, tag_type).files
    /\ rp_last' = RepoOp(tag_type, hash, <<SegRefs, SegTags, name>>,
                         TagCreate(refs, name, hash, tag_type).res,
                         HadAt(refs, <<SegRefs, SegTags, name>>))
    /\ RpFrame

\* Ref::resolve(repository, paths)
RpResolve(paths) ==
    /\ rp_last.op # "none"
    /\ rp_last' = RepoOp("resolve", <<>>, paths, RefResolve(refs, paths), None)
    /\ UNCHANGED refs
    /\ RpFrame

RpNext ==
    \/ RpInit
    \/ \E hash \in {DigestA, DigestB}, paths \in RepoRefPaths : RpCreate(hash, paths)
    \/ \E hash \in {DigestA, DigestB}, tag_type \in {"Lightweight", "Object"} :
          RpTag(SegV, hash, tag_type)
    \/ \E paths \in RepoRefPaths : RpResolve(paths)

RpInitial == RpStart /\ KvIdle /\ TrIdle /\ ObIdle /\ IgIdle /\ IxIdle /\ CoIdle /\ FoIdle /\ StIdle

SpecRepo == RpInitial /\ [][RpNext]_vars

\* the reference files: HEAD and the files below refs/heads and refs/tags
RefFilesOf(files) ==
    {p \in DOMAIN files :
        \/ p = <<SegHEAD>>
        \/ Len(p) >= 3 /\ p[1] = SegRefs /\ p[2] \in {SegHeads, SegTags}}

\* a 40-hex digest and a newline, or "ref: <path>\n"
WellFormedRef(bytes) ==
    \/ /\ Len(bytes) = 2 * LeafHashLen + 1 /\ bytes[Len(bytes)] = NL
       /\ \A i \in 1..(2 * LeafHashLen) : IsHexDigit(bytes[i])
    \/ /\ StartsWith(bytes, RefMarker \o <<SP>>)
       /\ Len(bytes) > RefTargetOffset + 1 /\ bytes[Len(bytes)] = NL

\* C22: in every state reachable from Repository::init by Ref::create_at and
\* Tag::create with 40-hex digests, each of HEAD, refs/heads/* and
\* refs/tags/* that exists holds a 40-hex digest and a newline or
\* 'ref: <path>\n', and Ref::resolve(["HEAD"]) never returns a string that
\* is not a 40-hex digest.
C22_RefFormat ==
    /\ \A p \in RefFilesOf(refs) : WellFormedRef(refs[p])
    /\ (rp_last.op = "resolve" /\ rp_last.paths = <<SegHEAD>> /\ rp_last.res.tag = "Ok")
          => WellFormedRef(rp_last.res.val \o <<NL>>)

\* Repository::init has returned Ok and HEAD holds "refs/head/master",
\* neither a digest nor a symbolic reference
C22_HeadAfterInit ==
    /\ rp_last.op = "init" /\ rp_last.res.tag = "Ok"
    /\ <<SegHEAD>> \in DOMAIN refs /\ refs[<<SegHEAD>>] = HeadContent
    /\ ~WellFormedRef(refs[<<SegHEAD>>])

\* resolve(["HEAD"]) has returned the text init wrote
C22_HeadResolvesToPath ==
    /\ rp_last.op = "resolve" /\ rp_last.paths = <<SegHEAD>>
    /\ rp_last.res.tag = "Ok" /\ rp_last.res.val = HeadContent

\* every reference file but the HEAD of init is well formed
CreatedRefsWellFormed ==
    \A p \in RefFilesOf(refs) :
        WellFormedRef(refs[p]) \/ (p = <<SegHEAD>> /\ refs[p] = HeadContent)

\* the last operation wrote a reference: create_at, or a lightweight tag
RpWrote == rp_last.op \in {"create", "Lightweight"}

\* resolve of paths returns exactly the digest
ResolvesTo(files, paths, digest) ==
    /\ RefResolve(files, paths).tag = "Ok"
    /\ RefResolve(files, paths).val = digest

\* C23: create_at(digest, path) makes the missing parent directories and
\* writes exactly '<digest>\n' over whatever file was at the path; resolve of
\* the path then returns exactly the digest, that of the last create when
\* there were several; a lightweight tag n for D makes refs/tags/n resolve
\* to D.  A create fails only where a file is in the way of a parent
\* directory or a directory is at the path.
C23_CreateThenResolve ==
    RpWrote =>
        LET path == ComputeRepoPath(rp_last.paths)
        IN  /\ rp_last.res.tag = "Ok" =>
                  /\ path \in DOMAIN refs /\ refs[path] = rp_last.hash \o <<NL>>
                  /\ \A n \in 1..(Len(path) - 1) : IsDir(refs, SubSeq(path, 1, n))
                  /\ ResolvesTo(refs, rp_last.paths, rp_last.hash)
            /\ rp_last.res.tag # "Ok" =>
                  \/ IsDir(refs, path)
                  \/ \E n \in 1..(Len(path) - 1) : IsFile(refs, SubSeq(path, 1, n))
            /\ rp_last.had.some => rp_last.res.tag = "Ok"

\* a create over a file that held the other digest has returned Ok, and the
\* path resolves to the digest of this create
C23_Witness ==
    /\ rp_last.op = "create" /\ rp_last.res.tag = "Ok"
    /\ rp_last.paths = <<SegRefs, SegHeads, SegMain>> /\ rp_last.hash = DigestB
    /\ rp_last.had.some /\ rp_last.had.val = DigestA \o <<NL>>
    /\ ResolvesTo(refs, rp_last.paths, DigestB)

\* refs/tags/v/w created while refs/tags/v did not exist
ParentMade ==
    /\ rp_last.op = "create" /\ rp_last.res.tag = "Ok"
    /\ rp_last.paths = <<SegRefs, SegTags, SegV, SegW>>
    /\ IsDir(refs, <<SegRefs, SegTags, SegV>>)

\* the lightweight tag v created for a digest: refs/tags/v resolves to it
TagResolves ==
    /\ rp_last.op = "Lightweight" /\ rp_last.res.tag = "Ok"
    /\ ResolvesTo(refs, <<SegRefs, SegTags, SegV>>, rp_last.hash)

\* an annotated tag changes no file
AnnotatedTagWritesNothing ==
    /\ rp_last.op = "Object" /\ rp_last.res.tag = "Ok"
    /\ <<SegRefs, SegTags, SegV>> \notin DOMAIN refs

\* a create where a file is in the way of the parent directory panics
CreateBelowFilePanics ==
    /\ rp_last.op = "create" /\ rp_last.res.tag = "Panic"
    /\ IsFile(refs, <<SegRefs, SegTags, SegV>>)

(***************************************************************************)
(* Termination of Ref::resolve                                             *)
(***************************************************************************)
\* a step of the running resolve, by what it does to the count of calls:
\* RfResolveStep is the one action that raises it, and is enabled whenever a
\* call is on the stack and the bound on calls is not reached
RfProceeds ==
    /\ rf_pc = "running" /\ rf_depth < MaxRefDepth
    /\ rf_depth' = rf_depth + 1
    /\ UNCHANGED <<refs, rf_abs, rf_query, kvvars, trvars, obvars, igvars, ixvars,
                   covars, fovars, stvars, rpvars>>

\* the calls of resolve run one after the other until the outermost returns:
\* a process that is in a call does not stop
SpecRefsFair == RfInit /\ [][RfNext]_vars /\ WF_rf_depth(RfProceeds)

RECURSIVE ChainCalls(_, _, _)
\* the length of the chain from name: the names resolve is called with up
\* to the one that is no file or holds no indirection; 0 when the chain does
\* not end within fuel links (a cycle, when fuel is the number of files)
ChainCalls(abs, name, fuel) ==
    IF name \notin DOMAIN abs \/ abs[name].kind = "digest" THEN 1
    ELSE IF fuel = 0 THEN 0
    ELSE LET rest == ChainCalls(abs, abs[name].target, fuel - 1)
         IN  IF rest = 0 THEN 0 ELSE rest + 1

QueryChainCalls == ChainCalls(rf_abs, rf_query, Cardinality(DOMAIN rf_abs))

\* C24: resolve returns (a digest or an error) on every acyclic chain, after
\* as many calls as the chain is long; on a cyclic chain it keeps calling
\* itself and never returns, neither a result nor a cycle error.
C24_ResolveTermination ==
    /\ [](rf_pc = "done" => (QueryChainCalls # 0 /\ rf_depth = QueryChainCalls))
    /\ [](rf_pc = "running" => (QueryChainCalls = 0 \/ rf_depth < QueryChainCalls))
    /\ ((rf_pc = "running" /\ QueryChainCalls # 0) ~> rf_pc = "done")

\* refs/heads/main is 'ref: refs/heads/dev', refs/heads/dev is
\* 'ref: refs/heads/main': resolve of main has made MaxRefDepth calls, through
\* both files more than once, and has not returned
C24_Witness ==
    /\ RefMainBranch \in DOMAIN rf_abs /\ RefDevBranch \in DOMAIN rf_abs
    /\ rf_abs[RefMainBranch].kind = "sym" /\ rf_abs[RefMainBranch].target = RefDevBranch
    /\ rf_abs[RefDevBranch].kind = "sym" /\ rf_abs[RefDevBranch].target = RefMainBranch
    /\ rf_query = RefMainBranch /\ rf_pc = "running" /\ rf_depth = MaxRefDepth
    /\ rf_path = RefMainBranch

\* a chain of three files has returned its digest after three calls
ChainOfThreeReturns ==
    /\ rf_pc = "done" /\ rf_depth = 3 /\ rf_result.tag = "Ok"
    /\ QueryChainCalls = 3

\* a chain that ends at a name that is no file returns an error
DanglingChainReturnsError ==
    /\ rf_pc = "done" /\ rf_depth = 2 /\ rf_result.tag = "Err"

(***************************************************************************)
(* Listing of references: Ref::list_at over layouts of reference files     *)
(***************************************************************************)
SegM == <<109>>
RefM == <<SegRefs, SegM>>
RefTagV == <<SegRefs, SegTags, SegV>>
ListNames == {RefMainBranch, RefM, RefTagV}

\* what the listed files hold: a digest, an indirection to refs/heads/main, or
\* an indirection to refs/heads/dev, which is never a file
ListHoldings ==
    {[kind |-> "digest", d |-> DigestA, nl |-> TRUE, target |-> <<>>],
     [kind |-> "digest", d |-> DigestB, nl |-> FALSE, target |-> <<>>],
     [kind |-> "sym", d |-> <<>>, nl |-> TRUE, target |-> RefMainBranch],
     [kind |-> "sym", d |-> <<>>, nl |-> TRUE, target |-> RefDevBranch]}

\* the layouts listed: any of the names present, no reference naming itself
ListLayouts ==
    {l \in UNION {[S -> ListHoldings] : S \in SUBSET ListNames} :
        RefMainBranch \in DOMAIN l => l[RefMainBranch].target # RefMainBranch}

\* the directories listed, as paths below the git directory
ListDirs == {<<SegRefs>>, <<SegRefs, SegHeads>>, <<SegRefs, SegTags>>}

LsStart ==
    /\ \E l \in ListLayouts : refs = [n \in DOMAIN l |-> RefFileBytes(l[n])]
    /\ rf_abs = <<>> /\ rf_pc = "idle" /\ rf_query = <<>> /\ rf_path = <<>>
    /\ rf_depth = 0 /\ rf_result = Ok(<<>>)
    /\ RpIdle

\* Ref::list_at(repository, repository.get_path_to_dir(dir))
LsList(dir) ==
    /\ rp_last' = RepoOp("list", <<>>, dir, RefListAt(refs, GitDir \o dir), None)
    /\ UNCHANGED refs
    /\ RpFrame

LsNext == \E dir \in ListDirs : LsList(dir)

LsInit == LsStart /\ KvIdle /\ TrIdle /\ ObIdle /\ IgIdle /\ IxIdle /\ CoIdle /\ FoIdle /\ StIdle

SpecList == LsInit /\ [][LsNext]_vars

\* the reference files below a directory
RefsBelow(files, dir) ==
    {f \in DOMAIN files : Len(f) > Len(dir) /\ SubSeq(f, 1, Len(dir)) = dir}

\* the name of a file relative to a directory above it, slash-joined
RelativeName(file, dir) == JoinWith(SubSeq(file, Len(dir) + 1, Len(file)), SLASH)

\* the listing as stated: the files of a directory in name order, keyed
\* relative to the starting directory, then its subdirectories in name order
RECURSIVE StatedListing(_, _, _)
RECURSIVE StatedSubdirs(_, _, _, _, _)
StatedListing(files, start, dir) ==
    LET names == SortNames(DirEntries(files, dir))
        own == SelectSeq(names, LAMBDA n : IsFile(files, Append(dir, n)))
        sub == SelectSeq(names, LAMBDA n : ~IsFile(files, Append(dir, n)))
    IN  [i \in 1..Len(own) |->
            <<RelativeName(Append(dir, own[i]), start),
              RefResolve(files, Append(dir, own[i])).val>>]
        \o StatedSubdirs(files, start, dir, sub, 1)
StatedSubdirs(files, start, dir, sub, i) ==
    IF i > Len(sub) THEN <<>>
    ELSE StatedListing(files, start, Append(dir, sub[i]))
         \o StatedSubdirs(files, start, dir, sub, i + 1)

Listed == rp_last.op = "list"
ListedOk == Listed /\ rp_last.res.tag = "Ok"
SomeRefFails(files, dir) ==
    \E f \in RefsBelow(files, dir) : RefResolve(files, f).tag # "Ok"

\* C25: list_at(dir) fails when a reference below dir does not resolve, and
\* otherwise returns one entry per reference file below dir, keyed by its
\* slash-joined name relative to dir and valued by its resolved digest, the
\* files of each directory before its subdirectories, each in name order
C25_Listing ==
    Listed =>
        IF SomeRefFails(refs, rp_last.paths) THEN rp_last.res.tag # "Ok"
        ELSE /\ rp_last.res.tag = "Ok"
             /\ rp_last.res.val = StatedListing(refs, rp_last.paths, rp_last.paths)

\* a listing of refs whose key for refs/m is "//.gitrs/refs/m"
C25_KeyIsFilesystemPath ==
    /\ ListedOk /\ rp_last.paths = <<SegRefs>>
    /\ \E i \in 1..Len(rp_last.res.val) :
          rp_last.res.val[i][1] = <<SLASH, SLASH>> \o SegGitrs \o <<SLASH>>
                                  \o SegRefs \o <<SLASH>> \o SegM

\* a listing of refs in which refs/heads/main stands before refs/m
C25_SubdirectoryBeforeFile ==
    /\ ListedOk /\ rp_last.paths = <<SegRefs>>
    /\ Len(rp_last.res.val) = 3
    /\ rp_last.res.val[1][1] = JoinWith(GitDir \o RefMainBranch, SLASH)
    /\ rp_last.res.val[2][1] = JoinWith(GitDir \o RefM, SLASH)
    /\ rp_last.res.val[3][1] = JoinWith(GitDir \o RefTagV, SLASH)

\* component-wise order of two paths: the first differing component decides
PathLess(a, b) ==
    \E k \in 1..Len(a) :
        /\ k <= Len(b)
        /\ SubSeq(a, 1, k - 1) = SubSeq(b, 1, k - 1)
        /\ LexLess(a[k], b[k])

\* what the listing is: it fails exactly when a reference below dir does not
\* resolve; otherwise it has one entry per reference file below dir, keyed by
\* the slash-joined components of the file system path and valued by the
\* resolved digest, in the order of the paths component by component
ListingOfFilesystemPaths ==
    Listed =>
        /\ (rp_last.res.tag = "Ok") = ~SomeRefFails(refs, rp_last.paths)
        /\ rp_last.res.tag = "Ok" =>
             LET out == rp_last.res.val
                 below == RefsBelow(refs, rp_last.paths)
             IN  /\ Len(out) = Cardinality(below)
                 /\ \A f \in below : \E i \in 1..Len(out) :
                        /\ out[i][1] = JoinWith(GitDir \o f, SLASH)
                        /\ out[i][2] = RefResolve(refs, f).val
                        /\ \A g \in below : \A j \in 1..Len(out) :
                              (out[j][1] = JoinWith(GitDir \o g, SLASH) /\ PathLess(f, g))
                                  => i < j

\* a listing that fails because one reference below the directory dangles
ListFailsOnDanglingRef ==
    /\ Listed /\ rp_last.res.tag = "Err"
    /\ Cardinality(RefsBelow(refs, rp_last.paths)) = 3

(***************************************************************************)
(* Two processes stage at once: each reads the index and calls add once    *)
(***************************************************************************)
\* the path lists the two processes call add with
RacePaths(p) ==
    IF p = 1 THEN {<<PathA>>, <<PathA, PathB>>} ELSE {<<PathB>>, <<PathA>>}

RcStep(p) ==
    \/ StRead(p)
    \/ \E paths \in RacePaths(p) : StAdd(p, paths)
    \/ StPathOpen(p)
    \/ StPathPush(p)
    \/ StIndexCreate(p)
    \/ StIndexHeader(p)
    \/ StIndexEntry(p)

RcStart ==
    /\ st_work = [q \in {PathA, PathB} |->
                     IF q = PathA THEN WorkFile(BlobHi) ELSE WorkFile(BlobYo)]
    /\ st_proc = [p \in {1, 2} |-> StFresh(1)]
    /\ ObIdle /\ IxIdle

RcNext == \E p \in DOMAIN st_proc : RcStep(p)

RcInit == RcStart /\ KvIdle /\ TrIdle /\ RfIdle /\ IgIdle /\ CoIdle /\ FoIdle /\ RpIdle

SpecRace == RcInit /\ [][RcNext]_vars

\* a process is through: its add has returned, or its read or write failed
RcThrough(p) ==
    \/ st_proc[p].pc = "failed"
    \/ st_proc[p].pc = "ready" /\ st_proc[p].left = 0
RcBothThrough == DOMAIN st_proc = {1, 2} /\ RcThrough(1) /\ RcThrough(2)
RcBothReturnedOk ==
    /\ RcBothThrough
    /\ \A p \in {1, 2} : st_proc[p].pc = "ready" /\ st_proc[p].res.tag = "Ok"

\* the bytes Index::write gives for the entries of process p
RcImage(p) == IndexWrite(st_proc[p].mem).data

\* C26: when both processes are through, neither has seen an error and the
\* index file holds exactly the entry list one of them has written
C26_LastWriterWins ==
    RcBothThrough =>
        /\ RcBothReturnedOk
        /\ \E p \in {1, 2} : ix_file = [exists |-> TRUE, data |-> RcImage(p)]

\* both adds have returned Ok and the index file is the list of neither:
\* it reads as the entry for "/b" twice
C26_TornIndex ==
    /\ RcBothReturnedOk
    /\ \A p \in {1, 2} : ix_file.data # RcImage(p)
    /\ IndexRead(ix_file).tag = "Some"
    /\ Len(IndexRead(ix_file).val.entries) = 2
    /\ \A k \in 1..2 : IndexRead(ix_file).val.entries[k].path = PathB

\* a process has read the index while the other was writing it, and got None
C26_ReadFails ==
    /\ DOMAIN st_proc = {1, 2}
    /\ \E p \in {1, 2} : st_proc[p].pc = "failed" /\ st_proc[p].res.tag = "None"

\* both adds have returned Ok and the index file is the list of process 2,
\* in which the entry process 1 staged for "/a" is absent
LostUpdate ==
    /\ RcBothReturnedOk
    /\ st_proc[1].paths = <<PathA>> /\ st_proc[2].paths = <<PathB>>
    /\ ix_file.data = RcImage(2)
    /\ \A k \in 1..Len(st_proc[2].mem) : st_proc[2].mem[k].path # PathA

\* the object a worktree file is stored as
BlobFileOf(path) == IndexAddPath(st_work, <<>>, <<>>, path).store

\* object writes are benign: when both processes are through, every object
\* file is whole and holds the blob of the worktree file it was written for
ObjectWritesBenign ==
    RcBothThrough =>
        \A sha \in DOMAIN objects :
            \E path \in DOMAIN st_work :
                sha \in DOMAIN BlobFileOf(path) /\ objects[sha] = BlobFileOf(path)[sha]

\* both processes have staged "/a" and its one object is whole
SameObjectWrittenTwice ==
    /\ RcBothReturnedOk
    /\ st_proc[1].paths = <<PathA>> /\ st_proc[2].paths = <<PathA>>
    /\ Cardinality(DOMAIN objects) = 1

(***************************************************************************)
(* Partial failure of Index::add                                           *)
(***************************************************************************)
\* the call of process p has returned an error
StFailed(p) ==
    /\ st_proc[p].pc = "ready" /\ st_proc[p].paths # <<>>
    /\ st_proc[p].res.tag # "Ok"

\* the entries the call pushed: those behind the entries held before it
StPushed(p) == From(st_proc[p].mem, Len(st_proc[p].before.mem) + 1)

\* the path a running call stands at is outside the worktree or no file
StPathFails(p) ==
    LET path == st_proc[p].paths[st_proc[p].i]
    IN  ~RepositoryContains(path) \/ path \notin DOMAIN st_work

\* after a call that failed at path k: the result is an error, the index file
\* is as before the call, the entries held are those held before and one for
\* each of the paths 1..k-1 and none for a later path, the objects of those
\* entries are stored whole under their digests, and every other object is as
\* it was before the call
FailedCallKeepsEarlierSteps ==
    \A p \in DOMAIN st_proc :
        StFailed(p) =>
            LET proc == st_proc[p]
                pushed == StPushed(p)
            IN  /\ proc.res.tag = "Err"
                /\ proc.i \in 1..Len(proc.paths)
                /\ ix_file = proc.before.file
                /\ SubSeq(proc.mem, 1, Len(proc.before.mem)) = proc.before.mem
                /\ Len(pushed) = proc.i - 1
                /\ \A j \in 1..Len(pushed) :
                      /\ pushed[j].path = proc.paths[j]
                      /\ pushed[j].sha \in DOMAIN objects
                      /\ objects[pushed[j].sha].zlib
                      /\ Hash(objects[pushed[j].sha].data) = pushed[j].sha
                /\ DOMAIN objects =
                      DOMAIN proc.before.store \cup {pushed[j].sha : j \in 1..Len(pushed)}
                /\ \A d \in DOMAIN proc.before.store :
                      d \notin {pushed[j].sha : j \in 1..Len(pushed)}
                          => objects[d] = proc.before.store[d]

\* a call fails only at a path that is outside the worktree or no file: a
\* call over paths that are all inside and readable returns Ok
CallFailsOnlyAtBadPath ==
    \A p \in DOMAIN st_proc :
        (st_proc[p].pc = "path" /\ st_proc'[p].pc = "ready" /\ st_proc'[p].res.tag # "Ok")
            => StPathFails(p)

\* C27: an add that fails at path k returns an error and rolls nothing back:
\* the blobs of the paths before k stay stored, no later path is processed,
\* the index file is as before the call; and the same add run again once the
\* cause is removed succeeds, a call failing only at a path outside the
\* worktree or unreadable
C27_PartialFailure ==
    /\ []FailedCallKeepsEarlierSteps
    /\ [][CallFailsOnlyAtBadPath]_vars

\* add(["/a", "/b"]) failed at "/b" with "/a" staged and its blob stored, "/b"
\* was then created, and the same call run again has returned Ok
C27_Witness ==
    /\ DOMAIN st_proc = {1}
    /\ st_proc[1].pc = "ready" /\ st_proc[1].res.tag = "Ok"
    /\ st_proc[1].paths = <<PathA, PathB>>
    /\ st_proc[1].prev.paths = <<PathA, PathB>>
    /\ st_proc[1].prev.res.tag = "Err"
    /\ Len(st_proc[1].before.mem) = 1
    /\ st_proc[1].before.mem[1].path = PathA
    /\ st_proc[1].before.mem[1].sha \in DOMAIN st_proc[1].before.store
    /\ Len(IndexRead(ix_file).val.entries) = 3

\* add(["/a", "/b"]) has failed at "/b", which is no file: the blob of "/a"
\* stays stored and its entry held, and there is still no index file
FailsBehindStoredBlob ==
    /\ DOMAIN st_proc = {1}
    /\ StFailed(1) /\ st_proc[1].paths = <<PathA, PathB>> /\ st_proc[1].i = 2
    /\ Len(st_proc[1].mem) = 1 /\ Cardinality(DOMAIN objects) = 1 /\ ~ix_file.exists

\* add([path outside, "/a"]) has failed at its first path: nothing is stored
\* or staged for "/a"
FailsOutsideWorktree ==
    /\ DOMAIN st_proc = {1}
    /\ StFailed(1) /\ st_proc[1].paths = <<PathOutside, PathA>> /\ st_proc[1].i = 1
    /\ st_proc[1].mem = <<>> /\ objects = <<>> /\ ~ix_file.exists

(***************************************************************************)
(* Kvlm::parse on byte strings of any shape                                *)
(***************************************************************************)
MaxRawLen == 7     \* bytes of an input of Kvlm::parse

\* the bytes of the inputs: a letter, the space and the newline
KvRawBytes == {107, SP, NL}
KvRawInputs == UNION {[1..n -> KvRawBytes] : n \in 0..MaxRawLen}

KvRawStart ==
    /\ kv_pc = "start" /\ kv_x \in KvRawInputs /\ kv_m = <<>>
    /\ kv_parsed = Ok(<<>>) /\ kv_ser = <<>>

KvRawNext == KvParseInput \/ KvSerializeParsed

KvRawInit ==
    KvRawStart /\ TrIdle /\ RfIdle /\ ObIdle /\ IgIdle /\ IxIdle /\ CoIdle /\ FoIdle
               /\ StIdle /\ RpIdle

SpecKvlmRaw == KvRawInit /\ [][KvRawNext]_vars

\* the header lines of an input: its lines before the first blank line
KvHeaderLines(raw) ==
    LET lines == SplitOn(raw, NL)
    IN  IF \E i \in 1..Len(lines) : lines[i] = <<>>
        THEN SubSeq(lines, 1,
                 (CHOOSE i \in 1..Len(lines) :
                     lines[i] = <<>> /\ \A j \in 1..(i - 1) : lines[j] # <<>>) - 1)
        ELSE lines

LacksSpace(line) == \A i \in 1..Len(line) : line[i] # SP
SomeHeaderLacksSpace(raw) ==
    \E i \in 1..Len(KvHeaderLines(raw)) : LacksSpace(KvHeaderLines(raw)[i])

\* the part of a line before its first space
UpToFirstSpace(line) == SubSeq(line, 1, Position(line, SP, 1) - 1)

\* the headers of a parsed map: its entries but the message
KvHeadersOf(map) == SelectSeq(map, LAMBDA e : e.key.some)

KvParsedRaw == kv_pc # "start" /\ kv_m = <<>>

\* C28: parse fails on every input with a header line that has no space, and
\* otherwise every key is the part of a header line before its first space,
\* so no key holds a newline
C28_ParseSplitsHeaders ==
    KvParsedRaw =>
        /\ SomeHeaderLacksSpace(kv_x) => kv_parsed.tag # "Ok"
        /\ kv_parsed.tag = "Ok" =>
              \A n \in 1..Len(KvHeadersOf(kv_parsed.val)) :
                  LET key == KvHeadersOf(kv_parsed.val)[n].key.k
                  IN  /\ \A i \in 1..Len(key) : key[i] # NL
                      /\ \E i \in 1..Len(KvHeaderLines(kv_x)) :
                            /\ ~LacksSpace(KvHeaderLines(kv_x)[i])
                            /\ key = UpToFirstSpace(KvHeaderLines(kv_x)[i])

\* the input "k\nk k\n", whose first header line has no space, is parsed to
\* the one key "k\nk"
C28_KeyAcrossLines ==
    /\ KvParsedRaw
    /\ kv_x = <<107, NL, 107, SP, 107, NL>>
    /\ kv_parsed.tag = "Ok"
    /\ Len(kv_parsed.val) = 1
    /\ kv_parsed.val[1].key = KvSome(<<107, NL, 107>>)

\* the last line of the header that starts at line i: the lines behind it that
\* start with a space continue it
RECURSIVE ContinuationEnd(_, _)
ContinuationEnd(lines, i) ==
    IF i < Len(lines) /\ lines[i + 1] # <<>> /\ lines[i + 1][1] = SP
    THEN ContinuationEnd(lines, i + 1)
    ELSE i

\* the headers line by line: each header is split at the first space of its
\* first line, its value runs over its continuation lines without their
\* leading space and keeps the newline that ends it, and the value is pushed
\* behind the values its key already has
RECURSIVE HeadersLineByLine(_, _, _)
HeadersLineByLine(lines, i, result) ==
    IF i > Len(lines) THEN result
    ELSE LET last == ContinuationEnd(lines, i)
             space_idx == Position(lines[i], SP, 1)
             value == JoinWith(<<From(lines[i], space_idx + 1)>>
                                   \o [j \in 1..(last - i) |-> From(lines[i + j], 2)],
                               NL) \o <<NL>>
         IN  HeadersLineByLine(lines, last + 1,
                 KvEntryPush(result, KvSome(UpToFirstSpace(lines[i])), value))

\* where every header line has a space and parse returns, the headers are
\* those read line by line; and a key never holds a space
HeadersWithSpacesSplit ==
    (KvParsedRaw /\ kv_parsed.tag = "Ok") =>
        /\ \A n \in 1..Len(KvHeadersOf(kv_parsed.val)) :
              \A i \in 1..Len(KvHeadersOf(kv_parsed.val)[n].key.k) :
                  KvHeadersOf(kv_parsed.val)[n].key.k[i] # SP
        /\ ~SomeHeaderLacksSpace(kv_x) =>
              KvHeadersOf(kv_parsed.val) = HeadersLineByLine(KvHeaderLines(kv_x), 1, <<>>)

\* the input "k k\nk \n": the values "k\n" and "\n" of the key "k" are held
\* in the order they arrive
ValuesInArrivalOrder ==
    /\ KvParsedRaw
    /\ kv_x = <<107, SP, 107, NL, 107, SP, NL>>
    /\ kv_parsed = Ok(<<[key |-> KvSome(<<107>>), vals |-> <<<<107, NL>>, <<NL>>>>]>>)

\* an input with a header line that has no space and no space behind it: the
\* parse panics
PanicsWithoutSpace ==
    /\ KvParsedRaw
    /\ kv_x = <<107, SP, 107, NL, 107, NL>>
    /\ kv_parsed.tag = "Panic"
====
